---- MODULE Spec2Model ----
(***************************************************************************)
(* Key chains (HKDF, PRG, XDRBG) with optional persistence of the newest   *)
(* state in a DefaultStorage.  Byte strings are sequences of 0..255.  The  *)
(* external primitives (HMAC/HKDF, AES in counter mode, the XOFs) are      *)
(* deterministic functions that return the exact number of bytes asked     *)
(* for; their bytes come from a small mixing function.                     *)
(***************************************************************************)
EXTENDS Integers, Sequences, FiniteSets, TLC

VARIABLES
    storage,    \* the DefaultStorage objects made so far, by handle
    kc,         \* the facade the caller made
    held,       \* the key-chain state the caller was handed last
    pending,    \* per thread, the key_chain_update call it is inside
    last,       \* the call that returned last: arguments and result
    ncalls,     \* calls made so far
    made,       \* history: the persist flag and whether a storage handle was
                \* among the arguments kc was constructed with
    stored,     \* history: per storage, the kind it was made for and the
                \* state handed to its store methods last, per identity
    mutex       \* the thread inside map_mutex.lock() .. drop of the guard

vars == <<storage, kc, held, pending, last, ncalls, made, stored, mutex>>

(***************************************************************************)
(* Bounds of the exploration.                                              *)
(***************************************************************************)
\* calls of instantiate, update and fetch in one run
MaxCalls == 2

\* the Arc<DefaultStorage> the caller makes and hands to the facade
StorageIds == {"arc"}

\* every call may run on a thread of its own
Threads == 1..MaxCalls

(***************************************************************************)
(* Option and Result values.                                               *)
(***************************************************************************)
None == [some |-> FALSE]
Some(x) == [some |-> TRUE, v |-> x]
unwrap_or(opt, default) == IF opt.some THEN opt.v ELSE default

Ok(x) == [tag |-> "Ok", val |-> x]
\* an error value: the enum variant and what its message is about
Err(e, about) == [tag |-> "Err", err |-> e, msg |-> about]
Panic == [tag |-> "Panic"]
is_ok(r) == r.tag = "Ok"
is_err(r) == r.tag = "Err"

(***************************************************************************)
(* usize.  Lengths are usize values; the model takes the narrowest pointer *)
(* width Rust has, 16 bits, so that the largest lengths stay small.  A sum *)
(* that exceeds usize::MAX panics at the addition when overflow checks are *)
(* on and wraps when they are off; usize_add is the wrapped sum, and every *)
(* caller below panics on the wrapped value as well.  A Vec of more than   *)
(* isize::MAX bytes panics with a capacity overflow.                       *)
(***************************************************************************)
usize_MAX == 65535
isize_MAX == 32767
usize_add(a, b) == (a + b) % (usize_MAX + 1)

(***************************************************************************)
(* Byte strings.                                                           *)
(***************************************************************************)
\* a function over 1..n as a tuple of its values
to_vec(f) == f \o <<>>

Rep(n, b) == to_vec([i \in 1..n |-> b])

Take(s, n) == SubSeq(s, 1, n)
Drop(s, n) == SubSeq(s, n + 1, Len(s))

\* slice::split_at(mid): panics when mid > len
split_at(s, mid) == <<Take(s, mid), Drop(s, mid)>>

\* the share of byte i in a digest of s[lo..hi]
MixTerm(s, i, hi) == IF i <= hi THEN (s[i] + 1) * (i + 13) ELSE 0

\* a digest of s[lo..hi]: every byte and its position count
RECURSIVE MixRange(_, _, _)
MixRange(s, lo, hi) ==
    IF lo > hi THEN 7
    ELSE IF hi - lo < 8
    THEN (MixTerm(s, lo, hi) + MixTerm(s, lo + 1, hi) + MixTerm(s, lo + 2, hi)
          + MixTerm(s, lo + 3, hi) + MixTerm(s, lo + 4, hi) + MixTerm(s, lo + 5, hi)
          + MixTerm(s, lo + 6, hi) + MixTerm(s, lo + 7, hi)) % 65521
    ELSE LET mid == (lo + hi) \div 2 IN
         ((MixRange(s, lo, mid) * 131) + MixRange(s, mid + 1, hi) + 1) % 65521

Mix(s) == MixRange(s, 1, Len(s))

\* n bytes of the output stream of a primitive whose input mixed to seed
Stream(seed, n) == to_vec([j \in 1..n |-> (seed + (j * (1 + (seed \div 256)))) % 256])

(***************************************************************************)
(* crypto_primitives/hkdf_wrap_ops.rs                                      *)
(***************************************************************************)
HashFuncs == {"Sha256", "Sha512", "Sha3_256", "Sha3_512"}

output_size(hash_func) ==
    CASE hash_func = "Sha256" -> 32
      [] hash_func = "Sha512" -> 64
      [] hash_func = "Sha3_256" -> 32
      [] hash_func = "Sha3_512" -> 64

HashCode(hash_func) ==
    CASE hash_func = "Sha256" -> 1
      [] hash_func = "Sha512" -> 2
      [] hash_func = "Sha3_256" -> 3
      [] hash_func = "Sha3_512" -> 4

\* variant: a salt of exactly the digest size is refused as well
check_and_get_salt_strict(hash_func, extractor_salt) ==
    LET digest_size == output_size(hash_func) IN
    IF extractor_salt.some
    THEN IF Len(extractor_salt.v) >= digest_size
         THEN Err("InvalidLength", "salt")
         ELSE Ok(extractor_salt.v)
    ELSE Ok(Rep(digest_size, 0))

\* variant: an absent salt becomes the empty salt
check_and_get_salt_empty_default(hash_func, extractor_salt) ==
    LET digest_size == output_size(hash_func) IN
    IF extractor_salt.some
    THEN IF Len(extractor_salt.v) > digest_size
         THEN Err("InvalidLength", "salt")
         ELSE Ok(extractor_salt.v)
    ELSE Ok(<<>>)

check_and_get_salt(hash_func, extractor_salt) ==
    LET digest_size == output_size(hash_func) IN
    IF extractor_salt.some
    THEN IF Len(extractor_salt.v) > digest_size
         THEN Err("InvalidLength", "salt")
         ELSE Ok(extractor_salt.v)
    ELSE Ok(Rep(digest_size, 0))

\* variant: the largest length, 255 digests, is refused as well
hkdf_is_output_length_okay_strict(hash_func, total_output_length) ==
    LET digest_size == output_size(hash_func) IN
    IF total_output_length >= 255 * digest_size
    THEN Err("InvalidLength", "total output")
    ELSE Ok(<<>>)

hkdf_is_output_length_okay(hash_func, total_output_length) ==
    LET digest_size == output_size(hash_func) IN
    IF total_output_length > 255 * digest_size
    THEN Err("InvalidLength", "total output")
    ELSE Ok(<<>>)

\* HkdfExtract::new(Some(salt)); input_ikm; finalize: a PRK of digest size
hkdf_extract_macro(hash_func, salt, source_key_material) ==
    Stream(Mix(<<HashCode(hash_func), Len(salt)>> \o salt \o source_key_material),
           output_size(hash_func))

\* Hkdf::from_prk(prk).expect(..) panics for a PRK shorter than the digest;
\* expand fills total_output bytes, a longer output extending a shorter one
\* variant: the requested length is part of what is expanded
hkdf_expand_macro_length_bound(hash_func, pseudo_random_key, info, total_output_length) ==
    IF Len(pseudo_random_key) < output_size(hash_func)
    THEN Panic
    ELSE Ok(Stream(Mix(<<HashCode(hash_func) + 10, Len(pseudo_random_key), total_output_length>>
                       \o pseudo_random_key \o info),
                   total_output_length))

hkdf_expand_macro(hash_func, pseudo_random_key, info, total_output_length) ==
    IF Len(pseudo_random_key) < output_size(hash_func)
    THEN Panic
    ELSE Ok(Stream(Mix(<<HashCode(hash_func) + 10, Len(pseudo_random_key)>>
                       \o pseudo_random_key \o info),
                   total_output_length))

hkdf_extract(hash_func, extractor_salt, source_key_material) ==
    LET salt == check_and_get_salt(hash_func, extractor_salt) IN
    IF is_err(salt) THEN salt
    ELSE Ok(hkdf_extract_macro(hash_func, salt.val, source_key_material))

hkdf_expand(hash_func, pseudo_random_key, info_param, total_output_length) ==
    LET info == unwrap_or(info_param, <<>>)
        check == hkdf_is_output_length_okay(hash_func, total_output_length)
    IN IF total_output_length > isize_MAX THEN Panic
       ELSE IF is_err(check) THEN check
       ELSE hkdf_expand_macro(hash_func, pseudo_random_key, info, total_output_length)

(***************************************************************************)
(* crypto_primitives/prg_ops.rs                                            *)
(***************************************************************************)
NONCE_FOR_PRG_NEXT == <<150>> \o Rep(11, 10)
NONCE_FOR_PRG_REFRESH == <<150>> \o Rep(11, 13)

RECURSIVE XorByte(_, _)
XorByte(a, b) ==
    IF a = 0 /\ b = 0 THEN 0
    ELSE (((a % 2) + (b % 2)) % 2) + 2 * XorByte(a \div 2, b \div 2)

\* variant: no length check, the zip stops at the shorter parameter
xor_bytes_zip(param_1, param_2) ==
    LET n == IF Len(param_1) < Len(param_2) THEN Len(param_1) ELSE Len(param_2) IN
    Ok(to_vec([i \in 1..n |-> XorByte(param_1[i], param_2[i])]))

xor_bytes(param_1, param_2) ==
    IF Len(param_1) # Len(param_2)
    THEN Err("XORLengthMismatch", "unequal length")
    ELSE Ok(to_vec([i \in 1..Len(param_1) |-> XorByte(param_1[i], param_2[i])]))

\* Ctr128LE: the 16-byte IV is one little-endian 128-bit counter; block i of
\* the key stream encrypts IV + i (wrapping), the carry running from byte 1 up
RECURSIVE AddLE(_, _, _)
AddLE(block, n, i) ==
    IF i > Len(block) THEN block
    ELSE LET sum == block[i] + n IN
         AddLE([block EXCEPT ![i] = sum % 256], sum \div 256, i + 1)

CounterBlock(iv, i) == AddLE(iv, i, 1)

\* one AES block: 16 bytes determined by the key and the counter block
AesBlock(input_key, counter_block) ==
    Stream(Mix(<<20, Len(input_key)>> \o input_key \o counter_block), 16)

\* apply_keystream over an all-zero buffer of n bytes leaves the key stream
apply_keystream(input_key, iv, n) ==
    LET nblocks == (n + 15) \div 16
        blocks == to_vec([b \in 1..nblocks |->
                             AesBlock(input_key, CounterBlock(iv, b - 1))])
    IN to_vec([j \in 1..n |-> blocks[((j - 1) \div 16) + 1][((j - 1) % 16) + 1]])

\* variant: one nonce, that of next, for both steps
PrgIv_one_nonce(step) == NONCE_FOR_PRG_NEXT \o <<0, 0, 0, 1>>

PrgIv(step) ==
    (IF step = "Refresh" THEN NONCE_FOR_PRG_REFRESH ELSE NONCE_FOR_PRG_NEXT)
        \o <<0, 0, 0, 1>>

\* variant: the key must be as long as the security parameter
aes_in_counter_mode_as_prg_lambda_key(security_param_lambda, input_key, step) ==
    IF Len(input_key) # security_param_lambda
    THEN Err("InvalidInputKeyLength", "key")
    ELSE LET ciphertext == apply_keystream(input_key, PrgIv(step),
                                           2 * security_param_lambda)
             halves == split_at(ciphertext, security_param_lambda)
         IN IF step = "Refresh"
            THEN Ok([type |-> "Refresh", out |-> halves[1]])
            ELSE Ok([type |-> "Next", out |-> halves[1], state |-> halves[2]])

\* variant: every result carries the tag of next
aes_in_counter_mode_as_prg_next_tag(security_param_lambda, input_key, step) ==
    IF Len(input_key) \notin {16, 24, 32}
    THEN Err("InvalidInputKeyLength", "key")
    ELSE LET ciphertext == apply_keystream(input_key, PrgIv(step),
                                           2 * security_param_lambda)
             halves == split_at(ciphertext, security_param_lambda)
         IN Ok([type |-> "Next", out |-> halves[1], state |-> halves[2]])

aes_in_counter_mode_as_prg(security_param_lambda, input_key, step) ==
    IF Len(input_key) \notin {16, 24, 32}
    THEN Err("InvalidInputKeyLength", "key")
    ELSE LET ciphertext == apply_keystream(input_key, PrgIv(step),
                                           2 * security_param_lambda)
             halves == split_at(ciphertext, security_param_lambda)
         IN IF step = "Refresh"
            THEN Ok([type |-> "Refresh", out |-> halves[1]])
            ELSE Ok([type |-> "Next", out |-> halves[1], state |-> halves[2]])

prg_refresh(security_param_lambda, current_prg_state, extracted_parameter) ==
    LET xored_value == xor_bytes(current_prg_state, extracted_parameter) IN
    IF is_err(xored_value) THEN xored_value
    ELSE LET r == aes_in_counter_mode_as_prg(security_param_lambda,
                                             xored_value.val, "Refresh")
         IN IF is_err(r) THEN r
            ELSE IF r.val.type = "Next" THEN Err("UnexpectedOutputType", "next in refresh")
            ELSE Ok(r.val.out)

prg_next(security_param_lambda, current_prg_state) ==
    LET r == aes_in_counter_mode_as_prg(security_param_lambda,
                                        current_prg_state, "Next")
    IN IF is_err(r) THEN r
       ELSE IF r.val.type = "Refresh" THEN Err("UnexpectedOutputType", "refresh in next")
       ELSE Ok(<<r.val.out, r.val.state>>)

(***************************************************************************)
(* crypto_primitives/xdrbg_ops.rs                                          *)
(***************************************************************************)
MAX_LEN_ALPHA == 84

Xofs == {"Shake128", "Shake256", "Ascon"}

state_size(xof) ==
    CASE xof = "Shake128" -> 32
      [] xof = "Shake256" -> 64
      [] xof = "Ascon" -> 32

min_seed_size_instantiate(xof) ==
    CASE xof = "Shake128" -> 24
      [] xof = "Shake256" -> 48
      [] xof = "Ascon" -> 24

min_seed_size_reseed(xof) ==
    CASE xof = "Shake128" -> 16
      [] xof = "Shake256" -> 32
      [] xof = "Ascon" -> 16

max_total_output_size(xof) ==
    CASE xof = "Shake128" -> 304
      [] xof = "Shake256" -> 344
      [] xof = "Ascon" -> 256

XofCode(xof) ==
    CASE xof = "Shake128" -> 31
      [] xof = "Shake256" -> 32
      [] xof = "Ascon" -> 33

check_size_of_seed(seed, min_seed_len) ==
    IF Len(seed) < min_seed_len THEN Err("InvalidLength", "seed") ELSE Ok(<<>>)

check_size_of_alpha(alpha) ==
    IF Len(alpha) > MAX_LEN_ALPHA THEN Err("InvalidLength", "alpha") ELSE Ok(<<>>)

\* variant: one minimum seed size, that of reseed, for both operations
are_params_okay_one_minimum(xof, seed, alpha, ops) ==
    LET seed_check == check_size_of_seed(seed, min_seed_size_reseed(xof))
    IN IF is_err(seed_check) THEN seed_check ELSE check_size_of_alpha(alpha)

are_params_okay(xof, seed, alpha, ops) ==
    LET min_seed_len == IF ops = "Instantiate"
                        THEN min_seed_size_instantiate(xof)
                        ELSE min_seed_size_reseed(xof)
        seed_check == check_size_of_seed(seed, min_seed_len)
    IN IF is_err(seed_check) THEN seed_check ELSE check_size_of_alpha(alpha)

\* variant: the bound is exclusive
xof_is_output_length_okay_exclusive(xof, output_key_length) ==
    IF output_key_length + state_size(xof) >= max_total_output_size(xof)
    THEN Err("InvalidLength", "output")
    ELSE Ok(<<>>)

xof_is_output_length_okay(xof, output_key_length) ==
    IF usize_add(output_key_length, state_size(xof)) > max_total_output_size(xof)
    THEN Err("InvalidLength", "output")
    ELSE Ok(<<>>)

\* usize::BITS - leading_zeros(): the number of significant bits
RECURSIVE BitLen(_)
BitLen(v) == IF v = 0 THEN 0 ELSE 1 + BitLen(v \div 2)

RECURSIVE Pow256(_)
Pow256(k) == IF k = 0 THEN 1 ELSE 256 * Pow256(k - 1)

\* variant: the value is cut to one byte
encode_one_byte(seed, alpha, value_n) ==
    seed \o alpha \o <<(value_n * 85 + Len(alpha)) % 256>>

encode(seed, alpha, value_n) ==
    LET computed_param == value_n * 85 + Len(alpha)
        num_bytes == IF computed_param = 0 THEN 1
                     ELSE (BitLen(computed_param) + 7) \div 8
        param_bytes == to_vec([i \in 1..num_bytes |->
                          (computed_param \div Pow256(num_bytes - i)) % 256])
    IN seed \o alpha \o param_bytes

\* update(encoded_bytes); finalize_xof(); read(total_output_length bytes)
generate_output(xof, encoded_bytes, total_output_length) ==
    Stream(Mix(<<XofCode(xof)>> \o encoded_bytes), total_output_length)

xdrbg_instantiate(xof, seed, alpha) ==
    LET aplha_val == unwrap_or(alpha, <<>>)
        check == are_params_okay(xof, seed, aplha_val, "Instantiate")
    IN IF is_err(check) THEN check
       ELSE Ok(generate_output(xof, encode(seed, aplha_val, 0), state_size(xof)))

xdrbg_reseed(xof, current_xdrbg_state, seed, alpha) ==
    LET aplha_val == unwrap_or(alpha, <<>>)
        check == are_params_okay(xof, seed, aplha_val, "Reseed")
    IN IF is_err(check) THEN check
       ELSE Ok(generate_output(xof,
                   encode(current_xdrbg_state \o seed, aplha_val, 1),
                   state_size(xof)))

xdrbg_generate(xof, current_xdrbg_state, output_key_length, alpha) ==
    LET aplha_val == unwrap_or(alpha, <<>>)
        check == xof_is_output_length_okay(xof, output_key_length)
        total_output == generate_output(xof, encode(current_xdrbg_state, aplha_val, 2),
                                        usize_add(output_key_length, state_size(xof)))
    IN IF is_err(check) THEN check
       ELSE IF state_size(xof) > Len(total_output) THEN Panic
       ELSE Ok(split_at(total_output, state_size(xof)))

(***************************************************************************)
(* key_chains/storage_handler.rs: DefaultStorage.  A HashMap is a function *)
(* from its key type to Option<NewState>: None for a key never inserted.   *)
(***************************************************************************)
KeyChainTypes == {"HkdfKeyChain", "PrgKeyChain", "XdrbgKeyChain"}

\* security parameters the callers of this model use as PRG map keys
PrgLambdas == {16, 24, 32, 8}

IdentitiesOf(key_chain_type) ==
    CASE key_chain_type = "HkdfKeyChain" -> HashFuncs
      [] key_chain_type = "PrgKeyChain" -> PrgLambdas
      [] key_chain_type = "XdrbgKeyChain" -> Xofs

EmptyMap(key_chain_type) == [k \in IdentitiesOf(key_chain_type) |-> None]

DefaultStorage_new(key_chain_type) ==
    [hkdf_map |-> IF key_chain_type = "HkdfKeyChain"
                  THEN Some(EmptyMap("HkdfKeyChain")) ELSE None,
     prg_map |-> IF key_chain_type = "PrgKeyChain"
                 THEN Some(EmptyMap("PrgKeyChain")) ELSE None,
     xdrbg_map |-> IF key_chain_type = "XdrbgKeyChain"
                   THEN Some(EmptyMap("XdrbgKeyChain")) ELSE None]

store_state_for_hkdf_keychain(self, state_of_key_chain, hash_func) ==
    IF self.hkdf_map.some
    THEN [self EXCEPT !.hkdf_map =
             Some([self.hkdf_map.v EXCEPT ![hash_func] = Some(state_of_key_chain)])]
    ELSE self

store_state_for_prg_keychain(self, state_of_key_chain, security_param_lambda) ==
    IF self.prg_map.some
    THEN [self EXCEPT !.prg_map =
             Some([self.prg_map.v EXCEPT ![security_param_lambda] = Some(state_of_key_chain)])]
    ELSE self

store_state_for_xdrbg_keychain(self, state_of_key_chain, xof) ==
    IF self.xdrbg_map.some
    THEN [self EXCEPT !.xdrbg_map =
             Some([self.xdrbg_map.v EXCEPT ![xof] = Some(state_of_key_chain)])]
    ELSE self

fetch_hkdf_keychain_state(self, hash_func) ==
    IF self.hkdf_map.some
    THEN IF self.hkdf_map.v[hash_func].some
         THEN Ok(self.hkdf_map.v[hash_func].v)
         ELSE Err("NoStoredState", "no state found")
    ELSE Err("UninitializedStorage", "storage not initialized")

\* variant: a map that was never made reads as an empty one
fetch_prg_keychain_state_lenient(self, security_param_lambda) ==
    IF self.prg_map.some /\ self.prg_map.v[security_param_lambda].some
    THEN Ok(self.prg_map.v[security_param_lambda].v)
    ELSE Err("NoStoredState", "no state found")

fetch_prg_keychain_state(self, security_param_lambda) ==
    IF self.prg_map.some
    THEN IF self.prg_map.v[security_param_lambda].some
         THEN Ok(self.prg_map.v[security_param_lambda].v)
         ELSE Err("NoStoredState", "no state found")
    ELSE Err("UninitializedStorage", "storage not initialized")

fetch_xdrbg_keychain_state(self, xof) ==
    IF self.xdrbg_map.some
    THEN IF self.xdrbg_map.v[xof].some
         THEN Ok(self.xdrbg_map.v[xof].v)
         ELSE Err("NoStoredState", "no state found")
    ELSE Err("UninitializedStorage", "storage not initialized")

\* the trait's store and fetch, dispatched on the key-chain kind
store_state(self, key_chain_type, state_of_key_chain, identity) ==
    CASE key_chain_type = "HkdfKeyChain" ->
            store_state_for_hkdf_keychain(self, state_of_key_chain, identity)
      [] key_chain_type = "PrgKeyChain" ->
            store_state_for_prg_keychain(self, state_of_key_chain, identity)
      [] key_chain_type = "XdrbgKeyChain" ->
            store_state_for_xdrbg_keychain(self, state_of_key_chain, identity)

fetch_state(self, key_chain_type, identity) ==
    CASE key_chain_type = "HkdfKeyChain" -> fetch_hkdf_keychain_state(self, identity)
      [] key_chain_type = "PrgKeyChain" -> fetch_prg_keychain_state(self, identity)
      [] key_chain_type = "XdrbgKeyChain" -> fetch_xdrbg_keychain_state(self, identity)

(***************************************************************************)
(* key_chains/*.rs: the facades.  A facade is an immutable record; its     *)
(* storage field is a handle (Arc) to one of the DefaultStorage objects.   *)
(* stg is the memory the handles point into.                               *)
(***************************************************************************)
\* variant: the missing handle is not noticed
HkdfKeyChain_new_unguarded(hash_func, output_key_length, store_persistently, storage_handle) ==
    Ok([kind |-> "HkdfKeyChain",
        identity |-> hash_func,
        output_key_length |-> unwrap_or(output_key_length, output_size(hash_func)),
        state_length |-> output_size(hash_func),
        store_persistently |-> unwrap_or(store_persistently, FALSE),
        storage |-> storage_handle])

HkdfKeyChain_new(hash_func, output_key_length, store_persistently, storage_handle) ==
    LET persist == unwrap_or(store_persistently, FALSE) IN
    IF persist /\ ~storage_handle.some
    THEN Err("UninitializedStorage", "storage not initialized")
    ELSE Ok([kind |-> "HkdfKeyChain",
             identity |-> hash_func,
             output_key_length |-> unwrap_or(output_key_length, output_size(hash_func)),
             state_length |-> output_size(hash_func),
             store_persistently |-> persist,
             storage |-> IF persist THEN storage_handle ELSE None])

PrgKeyChain_new(security_param_lambda, store_persistently, storage_handle) ==
    LET persist == unwrap_or(store_persistently, FALSE) IN
    IF persist /\ ~storage_handle.some
    THEN Err("UninitializedStorage", "storage not initialized")
    ELSE IF security_param_lambda > isize_MAX THEN Panic
    ELSE Ok([kind |-> "PrgKeyChain",
             identity |-> security_param_lambda,
             init_state |-> Rep(security_param_lambda, 0),
             store_persistently |-> persist,
             storage |-> IF persist THEN storage_handle ELSE None])

\* variant: a handle that was passed is kept and used, whatever the flag
XdrbgKeyChain_new_handle_decides(chosen_xof, output_key_length, store_persistently, storage_handle) ==
    IF unwrap_or(store_persistently, FALSE) /\ ~storage_handle.some
    THEN Err("UninitializedStorage", "storage not initialized")
    ELSE Ok([kind |-> "XdrbgKeyChain",
             identity |-> chosen_xof,
             output_key_length |-> unwrap_or(output_key_length, state_size(chosen_xof)),
             store_persistently |-> storage_handle.some,
             storage |-> storage_handle])

XdrbgKeyChain_new(chosen_xof, output_key_length, store_persistently, storage_handle) ==
    LET persist == unwrap_or(store_persistently, FALSE) IN
    IF persist /\ ~storage_handle.some
    THEN Err("UninitializedStorage", "storage not initialized")
    ELSE Ok([kind |-> "XdrbgKeyChain",
             identity |-> chosen_xof,
             output_key_length |-> unwrap_or(output_key_length, state_size(chosen_xof)),
             store_persistently |-> persist,
             storage |-> IF persist THEN storage_handle ELSE None])

\* variant: a state found in the storage is handed out again
hkdf_key_chain_instantiate_resuming(self, stg, initial_skm, extractor_salt, info_param) ==
    LET found == IF self.storage.some /\ stg[self.storage.v].some
                 THEN fetch_hkdf_keychain_state(stg[self.storage.v].v, self.identity)
                 ELSE Err("NoStoredState", "no state found")
        pseudo_random_key == hkdf_extract(self.identity, extractor_salt, initial_skm)
    IN IF is_ok(found) THEN found
       ELSE IF ~is_ok(pseudo_random_key) THEN pseudo_random_key
       ELSE hkdf_expand(self.identity, pseudo_random_key.val, info_param, self.state_length)

hkdf_key_chain_instantiate(self, stg, initial_skm, extractor_salt, info_param) ==
    LET pseudo_random_key == hkdf_extract(self.identity, extractor_salt, initial_skm) IN
    IF ~is_ok(pseudo_random_key) THEN pseudo_random_key
    ELSE hkdf_expand(self.identity, pseudo_random_key.val, info_param, self.state_length)

\* variant: the total output is cut at the output length
hkdf_key_chain_update_cut_at_output(self, stg, arbitrary_input_param, keychain_state, extractor_salt, info_param) ==
    LET source_key_material == arbitrary_input_param \o keychain_state
        pseudo_random_key == hkdf_extract(self.identity, extractor_salt, source_key_material)
    IN IF ~is_ok(pseudo_random_key) THEN pseudo_random_key
       ELSE LET result == hkdf_expand(self.identity, pseudo_random_key.val, info_param,
                                      self.state_length + self.output_key_length)
            IN IF ~is_ok(result) THEN result
               ELSE Ok(split_at(result.val, self.output_key_length))

\* variant: the state is placed before the input in the key material
hkdf_key_chain_update_state_first(self, stg, arbitrary_input_param, keychain_state, extractor_salt, info_param) ==
    LET source_key_material == keychain_state \o arbitrary_input_param
        pseudo_random_key == hkdf_extract(self.identity, extractor_salt, source_key_material)
    IN IF ~is_ok(pseudo_random_key) THEN pseudo_random_key
       ELSE LET result == hkdf_expand(self.identity, pseudo_random_key.val, info_param,
                                      self.state_length + self.output_key_length)
            IN IF ~is_ok(result) THEN result
               ELSE Ok(split_at(result.val, self.state_length))

\* key_chain_update up to the point where the new state is handed to storage
hkdf_key_chain_update(self, stg, arbitrary_input_param, keychain_state, extractor_salt, info_param) ==
    LET source_key_material == arbitrary_input_param \o keychain_state
        pseudo_random_key == hkdf_extract(self.identity, extractor_salt, source_key_material)
    IN IF ~is_ok(pseudo_random_key) THEN pseudo_random_key
       ELSE LET result == hkdf_expand(self.identity, pseudo_random_key.val, info_param,
                                      usize_add(self.state_length, self.output_key_length))
            IN IF ~is_ok(result) THEN result
               ELSE IF self.state_length > Len(result.val) THEN Panic
               ELSE Ok(split_at(result.val, self.state_length))

\* variant: the zero state has the 16 bytes of the default security parameter
prg_key_chain_instantiate_default_state(self, stg, seed_for_prg_refreshing) ==
    prg_refresh(self.identity, Rep(16, 0), seed_for_prg_refreshing)

prg_key_chain_instantiate(self, stg, seed_for_prg_refreshing) ==
    prg_refresh(self.identity, self.init_state, seed_for_prg_refreshing)

\* variant: the whole keystream of next is handed out as the new state
prg_key_chain_update_whole_keystream(self, stg, arbitrary_input_param, keychain_state) ==
    LET refreshed_prg_state == prg_refresh(self.identity, keychain_state, arbitrary_input_param) IN
    IF ~is_ok(refreshed_prg_state) THEN refreshed_prg_state
    ELSE LET total_output == prg_next(self.identity, refreshed_prg_state.val) IN
         IF ~is_ok(total_output) THEN total_output
         ELSE Ok(<<total_output.val[1] \o total_output.val[2], total_output.val[1]>>)

\* variant: the halves of the keystream keep the order prg_next gives them
prg_key_chain_update_unswapped(self, stg, arbitrary_input_param, keychain_state) ==
    LET refreshed_prg_state == prg_refresh(self.identity, keychain_state, arbitrary_input_param) IN
    IF ~is_ok(refreshed_prg_state) THEN refreshed_prg_state
    ELSE LET total_output == prg_next(self.identity, refreshed_prg_state.val) IN
         IF ~is_ok(total_output) THEN total_output
         ELSE Ok(<<total_output.val[1], total_output.val[2]>>)

prg_key_chain_update(self, stg, arbitrary_input_param, keychain_state) ==
    LET refreshed_prg_state == prg_refresh(self.identity, keychain_state, arbitrary_input_param) IN
    IF ~is_ok(refreshed_prg_state) THEN refreshed_prg_state
    ELSE LET total_output == prg_next(self.identity, refreshed_prg_state.val) IN
         IF ~is_ok(total_output) THEN total_output
         ELSE Ok(<<total_output.val[2], total_output.val[1]>>)

xdrbg_key_chain_instantiate(self, stg, seed, alpha) ==
    xdrbg_instantiate(self.identity, seed, alpha)

\* variant: the reseeded state is handed out as the new state
xdrbg_key_chain_update_keeps_reseeded(self, stg, arbitrary_input_param, keychain_state, alpha_reseed, alpha_generate) ==
    LET reseeded_xdrbg_state ==
            xdrbg_reseed(self.identity, keychain_state, arbitrary_input_param, alpha_reseed)
    IN IF ~is_ok(reseeded_xdrbg_state) THEN reseeded_xdrbg_state
       ELSE LET total_output == xdrbg_generate(self.identity, reseeded_xdrbg_state.val,
                                               self.output_key_length, alpha_generate)
            IN IF ~is_ok(total_output) THEN total_output
               ELSE Ok(<<reseeded_xdrbg_state.val, total_output.val[2]>>)

xdrbg_key_chain_update(self, stg, arbitrary_input_param, keychain_state, alpha_reseed, alpha_generate) ==
    LET reseeded_xdrbg_state ==
            xdrbg_reseed(self.identity, keychain_state, arbitrary_input_param, alpha_reseed)
    IN IF ~is_ok(reseeded_xdrbg_state) THEN reseeded_xdrbg_state
       ELSE xdrbg_generate(self.identity, reseeded_xdrbg_state.val,
                           self.output_key_length, alpha_generate)

\* the tail of key_chain_update: if self.store_persistently, and a handle is
\* there, the storage's store method runs under the map's lock
persist_new_state(self, stg, new_state_of_key_chain) ==
    IF self.store_persistently /\ self.storage.some
    THEN [stg EXCEPT ![self.storage.v] =
             Some(store_state(stg[self.storage.v].v, self.kind,
                              new_state_of_key_chain, self.identity))]
    ELSE stg

\* variant: the store runs before the result is looked at
key_chain_update_store_first(self, stg, result) ==
    persist_new_state(self, stg, IF is_ok(result) THEN result.val[1] ELSE <<>>)

\* key_chain_update from the store on: only an Ok result is stored
key_chain_update_store(self, stg, result) ==
    IF is_ok(result) THEN persist_new_state(self, stg, result.val[1]) ELSE stg

\* does the tail of key_chain_update call a store method of storage s
calls_store(self, s) ==
    self.store_persistently /\ self.storage.some /\ self.storage.v = s

(***************************************************************************)
(* Arguments the callers pass.                                             *)
(***************************************************************************)
Persists == {None, Some(FALSE), Some(TRUE)}

\* a caller that made a storage passes its Arc; one that made none passes None
Handles ==
    IF \E s \in StorageIds : storage[s].some
    THEN {Some(s) : s \in {x \in StorageIds : storage[x].some}}
    ELSE {None}

HkdfOutputLengths(hash_func) ==
    {None, Some(8), Some(254 * output_size(hash_func) + 1)}

XdrbgOutputLengths(xof) ==
    {None, Some(8), Some(max_total_output_size(xof) - state_size(xof) + 1)}

\* <<extractor_salt, info_param>>: the defaults, a salt of the digest size
\* with an info, an empty salt, and a salt one byte too long
HkdfParams(hash_func) ==
    {<<None, None>>,
     <<Some(Rep(output_size(hash_func), 11)), Some(<<7, 7, 7>>)>>,
     <<Some(<<>>), None>>,
     <<Some(Rep(output_size(hash_func) + 1, 11)), None>>}

\* <<seed, alpha>> for instantiate
XdrbgInstantiateParams(xof) ==
    {<<Rep(min_seed_size_instantiate(xof), 3), None>>,
     <<Rep(min_seed_size_instantiate(xof), 3), Some(Rep(MAX_LEN_ALPHA, 9))>>,
     <<Rep(min_seed_size_instantiate(xof) - 1, 3), None>>,
     <<Rep(min_seed_size_instantiate(xof), 3), Some(Rep(MAX_LEN_ALPHA + 1, 9))>>}

\* <<input, alpha_reseed, alpha_generate>> for update
XdrbgUpdateParams(xof) ==
    {<<Rep(min_seed_size_reseed(xof), 3), None, None>>,
     <<Rep(min_seed_size_reseed(xof), 3), Some(Rep(MAX_LEN_ALPHA, 9)), Some(<<8>>)>>,
     <<Rep(min_seed_size_reseed(xof) - 1, 3), None, None>>,
     <<Rep(min_seed_size_reseed(xof), 3), Some(Rep(MAX_LEN_ALPHA + 1, 9)), None>>}

\* the state a caller threads into update: the one it was handed last, or a
\* buffer of n bytes when it holds none
StateArg(n) == IF held.some THEN held.v ELSE Rep(n, 5)

\* the thread that makes the next update call: threads are interchangeable
Caller == CHOOSE t \in Threads : ~pending[t].some /\ \A u \in Threads : u < t => pending[u].some

\* the identities a caller asks a storage for
FetchKeys(key_chain_type) ==
    CASE key_chain_type = "HkdfKeyChain" -> {"Sha256", "Sha3_512"}
      [] key_chain_type = "PrgKeyChain" -> {16, 32}
      [] key_chain_type = "XdrbgKeyChain" -> {"Shake128", "Shake256"}

PrgSeeds(security_param_lambda) == {Rep(security_param_lambda, 3), Rep(15, 3)}

\* <<input, state>> for update: the threaded state with an input of lambda
\* bytes and with one of 15, and two fresh pairs of 32 and of 15 bytes each
PrgUpdateParams(security_param_lambda) ==
    {<<Rep(security_param_lambda, 3), StateArg(security_param_lambda)>>,
     <<Rep(15, 3), StateArg(security_param_lambda)>>,
     <<Rep(32, 3), Rep(32, 5)>>,
     <<Rep(15, 3), Rep(15, 5)>>}

(***************************************************************************)
(* The state machine.                                                      *)
(***************************************************************************)
Init ==
    /\ storage = [s \in StorageIds |-> None]
    /\ kc = None
    /\ held = None
    /\ pending = [t \in Threads |-> None]
    /\ last = [op |-> "init", self |-> None, args |-> <<>>, result |-> Ok(<<>>)]
    /\ ncalls = 0
    /\ made = None
    /\ stored = [s \in StorageIds |->
                   [made_for |-> None,
                    slot |-> [k \in KeyChainTypes |-> EmptyMap(k)]]]
    /\ mutex = None

\* Arc::new(DefaultStorage::new(key_chain_type))
NewStorage(s, key_chain_type) ==
    /\ ~storage[s].some
    /\ storage' = [storage EXCEPT ![s] = Some(DefaultStorage_new(key_chain_type))]
    /\ last' = [op |-> "new_storage", self |-> None,
                args |-> <<s, key_chain_type>>, result |-> Ok(<<>>)]
    /\ stored' = [stored EXCEPT ![s].made_for = Some(key_chain_type)]
    /\ UNCHANGED <<kc, held, pending, ncalls, made, mutex>>

Construct(key_chain_type, args, result) ==
    /\ ~kc.some
    /\ UNCHANGED ncalls
    /\ kc' = IF is_ok(result) THEN Some(result.val) ELSE kc
    /\ made' = IF is_ok(result)
                THEN Some([persist |-> unwrap_or(args[3], FALSE), handle |-> args[4].some])
                ELSE made
    /\ last' = [op |-> "new", self |-> None,
                args |-> <<key_chain_type>> \o args, result |-> result]
    /\ UNCHANGED <<storage, held, pending, stored, mutex>>

HkdfNew(hash_func, output_key_length, store_persistently, storage_handle) ==
    Construct("HkdfKeyChain",
              <<hash_func, output_key_length, store_persistently, storage_handle>>,
              HkdfKeyChain_new(hash_func, output_key_length,
                               store_persistently, storage_handle))

PrgNew(security_param_lambda, store_persistently, storage_handle) ==
    Construct("PrgKeyChain",
              <<security_param_lambda, None, store_persistently, storage_handle>>,
              PrgKeyChain_new(security_param_lambda, store_persistently, storage_handle))

XdrbgNew(chosen_xof, output_key_length, store_persistently, storage_handle) ==
    Construct("XdrbgKeyChain",
              <<chosen_xof, output_key_length, store_persistently, storage_handle>>,
              XdrbgKeyChain_new(chosen_xof, output_key_length,
                                store_persistently, storage_handle))

Instantiate(args, result) ==
    /\ ncalls < MaxCalls
    /\ ncalls' = ncalls + 1
    /\ held' = IF is_ok(result) THEN Some(result.val) ELSE held
    /\ last' = [op |-> "instantiate", self |-> kc, args |-> args, result |-> result]
    /\ UNCHANGED <<storage, kc, pending, made, stored, mutex>>

HkdfInstantiate(initial_skm, extractor_salt, info_param) ==
    /\ kc.some /\ kc.v.kind = "HkdfKeyChain"
    /\ Instantiate(<<initial_skm, extractor_salt, info_param>>,
                   hkdf_key_chain_instantiate(kc.v, storage, initial_skm,
                                              extractor_salt, info_param))

PrgInstantiate(seed) ==
    /\ kc.some /\ kc.v.kind = "PrgKeyChain"
    /\ Instantiate(<<seed>>, prg_key_chain_instantiate(kc.v, storage, seed))

XdrbgInstantiate(seed, alpha) ==
    /\ kc.some /\ kc.v.kind = "XdrbgKeyChain"
    /\ Instantiate(<<seed, alpha>>,
                   xdrbg_key_chain_instantiate(kc.v, storage, seed, alpha))

\* a thread enters key_chain_update and runs it up to the store
UpdateBegin(t, args, result) ==
    /\ ncalls < MaxCalls
    /\ ncalls' = ncalls + 1
    /\ ~pending[t].some
    /\ pending' = [pending EXCEPT ![t] =
                      Some([self |-> kc.v, args |-> args, result |-> result])]
    /\ last' = [op |-> "update_begin", self |-> kc, args |-> args, result |-> result]
    /\ UNCHANGED <<storage, kc, held, made, stored, mutex>>

HkdfUpdateBegin(t, input, state, extractor_salt, info_param) ==
    /\ kc.some /\ kc.v.kind = "HkdfKeyChain"
    /\ UpdateBegin(t, <<input, state, extractor_salt, info_param>>,
                   hkdf_key_chain_update(kc.v, storage, input, state,
                                         extractor_salt, info_param))

PrgUpdateBegin(t, input, state) ==
    /\ kc.some /\ kc.v.kind = "PrgKeyChain"
    /\ UpdateBegin(t, <<input, state>>,
                   prg_key_chain_update(kc.v, storage, input, state))

XdrbgUpdateBegin(t, input, state, alpha_reseed, alpha_generate) ==
    /\ kc.some /\ kc.v.kind = "XdrbgKeyChain"
    /\ UpdateBegin(t, <<input, state, alpha_reseed, alpha_generate>>,
                   xdrbg_key_chain_update(kc.v, storage, input, state,
                                          alpha_reseed, alpha_generate))

\* the thread stores the new state (persistent facade, Ok only) and returns
UpdateReturn(t) ==
    /\ pending[t].some
    /\ LET call == pending[t].v
           self == call.self
       IN /\ storage' = key_chain_update_store(self, storage, call.result)
          /\ stored' = [s \in StorageIds |->
                          IF is_ok(call.result) /\ calls_store(self, s)
                          THEN [stored[s] EXCEPT !.slot[self.kind][self.identity] =
                                                     Some(call.result.val[1])]
                          ELSE stored[s]]
          /\ held' = IF is_ok(call.result) THEN Some(call.result.val[1]) ELSE held
          /\ last' = [op |-> "update", self |-> Some(self),
                      args |-> call.args, result |-> call.result]
    /\ pending' = [pending EXCEPT ![t] = None]
    /\ UNCHANGED <<kc, ncalls, made, mutex>>

\* storage.fetch_*_keychain_state(identity), called on the handle directly
Fetch(s, key_chain_type, identity) ==
    /\ ncalls < MaxCalls
    /\ ncalls' = ncalls + 1
    /\ storage[s].some
    /\ last' = [op |-> "fetch", self |-> None,
                args |-> <<s, key_chain_type, identity>>,
                result |-> fetch_state(storage[s].v, key_chain_type, identity)]
    /\ UNCHANGED <<storage, kc, held, pending, made, stored, mutex>>

IsKind(key_chain_type) == kc.some /\ kc.v.kind = key_chain_type

CanCall == ncalls < MaxCalls

CanUpdate == CanCall /\ \E t \in Threads : ~pending[t].some

\* a storage is made before the facade that may be handed its Arc
CreateStorage ==
    /\ ~kc.some
    /\ \E s \in StorageIds, k \in KeyChainTypes : NewStorage(s, k)

CreateHkdf ==
    /\ ~kc.some
    /\ \E h \in HashFuncs, p \in Persists, hd \in Handles :
          \E okl \in HkdfOutputLengths(h) : HkdfNew(h, okl, p, hd)

CreatePrg ==
    /\ ~kc.some
    /\ \E l \in PrgLambdas, p \in Persists, hd \in Handles : PrgNew(l, p, hd)

CreateXdrbg ==
    /\ ~kc.some
    /\ \E x \in Xofs, p \in Persists, hd \in Handles :
          \E okl \in XdrbgOutputLengths(x) : XdrbgNew(x, okl, p, hd)

CallHkdfInstantiate ==
    /\ CanCall /\ IsKind("HkdfKeyChain")
    /\ \E p \in HkdfParams(kc.v.identity) :
          HkdfInstantiate(<<1, 2, 3, 4>>, p[1], p[2])

CallPrgInstantiate ==
    /\ CanCall /\ IsKind("PrgKeyChain")
    /\ \E seed \in PrgSeeds(kc.v.identity) : PrgInstantiate(seed)

CallXdrbgInstantiate ==
    /\ CanCall /\ IsKind("XdrbgKeyChain")
    /\ \E p \in XdrbgInstantiateParams(kc.v.identity) :
          XdrbgInstantiate(p[1], p[2])

CallHkdfUpdate ==
    /\ CanUpdate /\ IsKind("HkdfKeyChain")
    /\ \E p \in HkdfParams(kc.v.identity) :
          HkdfUpdateBegin(Caller, <<6, 6>>, StateArg(kc.v.state_length), p[1], p[2])

CallPrgUpdate ==
    /\ CanUpdate /\ IsKind("PrgKeyChain")
    /\ \E p \in PrgUpdateParams(kc.v.identity) : PrgUpdateBegin(Caller, p[1], p[2])

CallXdrbgUpdate ==
    /\ CanUpdate /\ IsKind("XdrbgKeyChain")
    /\ \E p \in XdrbgUpdateParams(kc.v.identity) :
          XdrbgUpdateBegin(Caller, p[1], StateArg(state_size(kc.v.identity)), p[2], p[3])

ReturnUpdate == \E t \in Threads : UpdateReturn(t)

\* the caller reads the storage through its own clone of the Arc
CallFetch ==
    /\ CanCall
    /\ \E s \in StorageIds, k \in KeyChainTypes :
          \E id \in FetchKeys(k) : Fetch(s, k, id)

Next ==
    \/ CreateStorage
    \/ CreateHkdf
    \/ CreatePrg
    \/ CreateXdrbg
    \/ CallHkdfInstantiate
    \/ CallPrgInstantiate
    \/ CallXdrbgInstantiate
    \/ CallHkdfUpdate
    \/ CallPrgUpdate
    \/ CallXdrbgUpdate
    \/ ReturnUpdate
    \/ CallFetch

Spec == Init /\ [][Next]_vars

(***************************************************************************)
(* hkdf_expand on its own, as the tests of hkdf_wrap_ops.rs call it: the   *)
(* PRK comes from hkdf_extract with the default salt.                      *)
(***************************************************************************)
ExpandLengths(hash_func) ==
    {0, 1, output_size(hash_func), 255 * output_size(hash_func) - 1,
     255 * output_size(hash_func), 255 * output_size(hash_func) + 1,
     256 * output_size(hash_func)}

ExpandInfos == {None, Some(<<>>), Some(<<7, 7, 7>>)}

ExpandKeyMaterials == {<<1, 2, 3, 4>>, Rep(26, 9)}

ApplyExpand(hash_func, source_key_material, info_param, total_output_length) ==
    /\ LET prk == hkdf_extract(hash_func, None, source_key_material).val IN
       last' = [op |-> "hkdf_expand", self |-> None,
                args |-> <<hash_func, prk, info_param, total_output_length>>,
                result |-> hkdf_expand(hash_func, prk, info_param, total_output_length)]
    /\ UNCHANGED <<storage, kc, held, pending, ncalls, made, stored, mutex>>

NextExpand ==
    \E h \in HashFuncs, ikm \in ExpandKeyMaterials, info \in ExpandInfos :
       \E n \in ExpandLengths(h) : ApplyExpand(h, ikm, info, n)

SpecExpand == Init /\ [][NextExpand]_vars

(***************************************************************************)
(* The PRG on its own, as the tests of prg_ops.rs call it, and             *)
(* key_chain_update of a PrgKeyChain made without persistence.             *)
(***************************************************************************)
\* gen_key(len) of the tests: the bytes 0, 1, 2, ..
gen_key(len) == to_vec([i \in 1..len |-> (i - 1) % 256])

PrgKeyLengths == {0, 15, 16, 17, 24, 31, 32, 33}

PrgSecurityParams == {16, 24, 32}

CallPrgRefresh ==
    /\ \E l \in PrgSecurityParams, n \in PrgKeyLengths, m \in PrgKeyLengths :
          last' = [op |-> "prg_refresh", self |-> None,
                   args |-> <<l, gen_key(n), Rep(m, 1)>>,
                   result |-> prg_refresh(l, gen_key(n), Rep(m, 1))]
    /\ UNCHANGED <<storage, kc, held, pending, ncalls, made, stored, mutex>>

CallPrgNext ==
    /\ \E l \in PrgSecurityParams, n \in PrgKeyLengths :
          last' = [op |-> "prg_next", self |-> None,
                   args |-> <<l, gen_key(n)>>,
                   result |-> prg_next(l, gen_key(n))]
    /\ UNCHANGED <<storage, kc, held, pending, ncalls, made, stored, mutex>>

CallPrgKeyChainUpdate ==
    /\ \E l \in PrgSecurityParams, n \in PrgKeyLengths, m \in PrgKeyLengths :
          LET self == PrgKeyChain_new(l, None, None).val IN
          last' = [op |-> "prg_key_chain_update", self |-> Some(self),
                   args |-> <<Rep(m, 1), gen_key(n)>>,
                   result |-> prg_key_chain_update(self, storage, Rep(m, 1), gen_key(n))]
    /\ UNCHANGED <<storage, kc, held, pending, ncalls, made, stored, mutex>>

CallPrgKeyChainInstantiate ==
    /\ \E l \in PrgLambdas, n \in PrgKeyLengths \cup {8} :
          LET self == PrgKeyChain_new(l, None, None).val IN
          last' = [op |-> "prg_key_chain_instantiate", self |-> Some(self),
                   args |-> <<gen_key(n)>>,
                   result |-> prg_key_chain_instantiate(self, storage, gen_key(n))]
    /\ UNCHANGED <<storage, kc, held, pending, ncalls, made, stored, mutex>>

NextPrg ==
    \/ CallPrgRefresh
    \/ CallPrgNext
    \/ CallPrgKeyChainUpdate
    \/ CallPrgKeyChainInstantiate

SpecPrg == Init /\ [][NextPrg]_vars

(***************************************************************************)
(* The XDRBG on its own, as the tests of xdrbg_ops.rs call it, and         *)
(* key_chain_update of an XdrbgKeyChain made without persistence.          *)
(***************************************************************************)
XdrbgSeedLengths == {0, 10, 15, 16, 17, 23, 24, 25, 31, 32, 33, 47, 48, 49}

XdrbgAlphas == {None, Some(<<>>), Some(<<5>>), Some(Rep(84, 3)), Some(Rep(85, 3))}

ApplyXdrbgInstantiate ==
    /\ \E xof \in Xofs, n \in XdrbgSeedLengths, alpha \in XdrbgAlphas :
          last' = [op |-> "xdrbg_instantiate", self |-> None,
                   args |-> <<xof, gen_key(n), alpha>>,
                   result |-> xdrbg_instantiate(xof, gen_key(n), alpha)]
    /\ UNCHANGED <<storage, kc, held, pending, ncalls, made, stored, mutex>>

ApplyXdrbgReseed ==
    /\ \E xof \in Xofs, n \in XdrbgSeedLengths, alpha \in XdrbgAlphas :
          LET current_xdrbg_state == Rep(state_size(xof), 9) IN
          last' = [op |-> "xdrbg_reseed", self |-> None,
                   args |-> <<xof, current_xdrbg_state, gen_key(n), alpha>>,
                   result |-> xdrbg_reseed(xof, current_xdrbg_state, gen_key(n), alpha)]
    /\ UNCHANGED <<storage, kc, held, pending, ncalls, made, stored, mutex>>

ApplyXdrbgGenerate ==
    /\ \E xof \in Xofs, alpha \in XdrbgAlphas :
       \E output_key_length \in {0, 1, 32,
                                 max_total_output_size(xof) - state_size(xof) - 1,
                                 max_total_output_size(xof) - state_size(xof),
                                 max_total_output_size(xof) - state_size(xof) + 1,
                                 max_total_output_size(xof)} :
          LET current_xdrbg_state == Rep(state_size(xof), 9) IN
          last' = [op |-> "xdrbg_generate", self |-> None,
                   args |-> <<xof, current_xdrbg_state, output_key_length, alpha>>,
                   result |-> xdrbg_generate(xof, current_xdrbg_state,
                                             output_key_length, alpha)]
    /\ UNCHANGED <<storage, kc, held, pending, ncalls, made, stored, mutex>>

ApplyXdrbgKeyChainUpdate ==
    /\ \E xof \in Xofs, alpha_reseed \in XdrbgAlphas, alpha_generate \in XdrbgAlphas :
          LET self == XdrbgKeyChain_new(xof, None, None, None).val
              keychain_state == Rep(state_size(xof), 9)
              arbitrary_input_param == gen_key(min_seed_size_reseed(xof))
          IN last' = [op |-> "xdrbg_key_chain_update", self |-> Some(self),
                      args |-> <<xof, arbitrary_input_param, keychain_state,
                                 alpha_reseed, alpha_generate>>,
                      result |-> xdrbg_key_chain_update(self, storage,
                                     arbitrary_input_param, keychain_state,
                                     alpha_reseed, alpha_generate)]
    /\ UNCHANGED <<storage, kc, held, pending, ncalls, made, stored, mutex>>

\* encode on its own: the op codes of the callers, 0, 1 and 2, and others
ApplyEncode ==
    /\ \E data \in {<<>>, gen_key(5)}, n \in {0, 1, 3, 84, 85, 86, 255},
          value_n \in {0, 1, 2, 3, 771, 800} :
          last' = [op |-> "encode", self |-> None,
                   args |-> <<data, Rep(n, 9), value_n>>,
                   result |-> encode(data, Rep(n, 9), value_n)]
    /\ UNCHANGED <<storage, kc, held, pending, ncalls, made, stored, mutex>>

\* calls of the three operations on byte strings of ones: seeds of the least
\* size and of state_size + 87 bytes, alphas of 0, 10, 84 and 96 bytes
XdrbgCalls(xof) ==
    {[op |-> "instantiate", state |-> <<>>, seed |-> Rep(n, 1), alpha |-> Some(Rep(m, 1))] :
        n \in {min_seed_size_instantiate(xof), state_size(xof) + 87}, m \in {0, 10, 84, 96}}
    \cup {[op |-> "reseed", state |-> Rep(state_size(xof), 1), seed |-> Rep(n, 1), alpha |-> Some(Rep(m, 1))] :
        n \in {min_seed_size_reseed(xof)}, m \in {0, 10, 84, 96}}
    \cup {[op |-> "generate", state |-> Rep(state_size(xof), 1), seed |-> <<>>, alpha |-> Some(Rep(m, 1))] :
        m \in {0, 10, 84, 96}}

\* the bytes a call hands to the XOF: update(&encode(..))
XofInput(c) ==
    CASE c.op = "instantiate" -> encode(c.seed, unwrap_or(c.alpha, <<>>), 0)
      [] c.op = "reseed" -> encode(c.state \o c.seed, unwrap_or(c.alpha, <<>>), 1)
      [] c.op = "generate" -> encode(c.state, unwrap_or(c.alpha, <<>>), 2)

\* two calls on one Xdrbg and what each hands to the XOF
ApplyXofInputs ==
    /\ \E xof \in Xofs : \E c1 \in XdrbgCalls(xof), c2 \in XdrbgCalls(xof) :
          /\ c1.op # c2.op
          /\ last' = [op |-> "xof_inputs", self |-> None,
                      args |-> <<xof, c1, c2>>,
                      result |-> <<XofInput(c1), XofInput(c2)>>]
    /\ UNCHANGED <<storage, kc, held, pending, ncalls, made, stored, mutex>>

NextXdrbg ==
    \/ ApplyXdrbgInstantiate
    \/ ApplyXdrbgReseed
    \/ ApplyXdrbgGenerate
    \/ ApplyXdrbgKeyChainUpdate
    \/ ApplyEncode
    \/ ApplyXofInputs

SpecXdrbg == Init /\ [][NextXdrbg]_vars

(***************************************************************************)
(* What the properties below compare the calls against.                    *)
(***************************************************************************)
\* the handles' memory before any DefaultStorage is made
NoStorage == [s \in StorageIds |-> None]

\* the result of instantiate or update on facade self, by kind
call_result(self, stg, op, args) ==
    CASE self.kind = "HkdfKeyChain" /\ op = "instantiate" ->
            hkdf_key_chain_instantiate(self, stg, args[1], args[2], args[3])
      [] self.kind = "HkdfKeyChain" /\ op # "instantiate" ->
            hkdf_key_chain_update(self, stg, args[1], args[2], args[3], args[4])
      [] self.kind = "PrgKeyChain" /\ op = "instantiate" ->
            prg_key_chain_instantiate(self, stg, args[1])
      [] self.kind = "PrgKeyChain" /\ op # "instantiate" ->
            prg_key_chain_update(self, stg, args[1], args[2])
      [] self.kind = "XdrbgKeyChain" /\ op = "instantiate" ->
            xdrbg_key_chain_instantiate(self, stg, args[1], args[2])
      [] self.kind = "XdrbgKeyChain" /\ op # "instantiate" ->
            xdrbg_key_chain_update(self, stg, args[1], args[2], args[3], args[4])

\* the length of a key-chain state of facade self
StateLength(self) ==
    CASE self.kind = "HkdfKeyChain" -> output_size(self.identity)
      [] self.kind = "PrgKeyChain" -> self.identity
      [] self.kind = "XdrbgKeyChain" -> state_size(self.identity)

\* the length of the random output of an update of facade self
OutputLength(self) ==
    IF self.kind = "PrgKeyChain" THEN self.identity ELSE self.output_key_length

\* the errors key_chain_update of a facade of this kind returns
UpdateErrors(key_chain_type) ==
    CASE key_chain_type = "HkdfKeyChain" ->
            {Err("InvalidLength", "salt"), Err("InvalidLength", "total output")}
      [] key_chain_type = "PrgKeyChain" ->
            {Err("XORLengthMismatch", "unequal length"), Err("InvalidInputKeyLength", "key")}
      [] key_chain_type = "XdrbgKeyChain" ->
            {Err("InvalidLength", "seed"), Err("InvalidLength", "alpha"),
             Err("InvalidLength", "output")}

\* some storage holds a state in the slot of the facade's identity
HoldsStateFor(self) ==
    \E s \in StorageIds :
       /\ storage[s].some
       /\ is_ok(fetch_state(storage[s].v, self.kind, self.identity))

IsCall == last.op \in {"instantiate", "update_begin", "update"}

\* the extractor_salt among the arguments of the HKDF call that returned last
LastSalt == IF last.op = "instantiate" THEN last.args[2] ELSE last.args[3]

(***************************************************************************)
(* Threads sharing one persistent facade and its storage, as the Arc and   *)
(* the Mutex around each map allow.  Here a store and a fetch are no       *)
(* longer one step: map_mutex.lock() waits for the guard, the bytes of a   *)
(* state reach the map in two parts, and the guard is dropped before the   *)
(* method returns.                                                         *)
(***************************************************************************)
\* variant: lock() never waits
lock_returns_any_time(m) == TRUE

\* map_mutex.lock() returns once no thread holds the guard
lock_returns(m) == ~m.some

\* the facade of each kind with its default configuration, persisting into s
LockFacades(s) ==
    {HkdfKeyChain_new("Sha256", None, Some(TRUE), Some(s)).val,
     PrgKeyChain_new(16, Some(TRUE), Some(s)).val,
     XdrbgKeyChain_new("Shake128", None, Some(TRUE), Some(s)).val}

\* the arguments of the update calls: two inputs, the same state
LockUpdateArgs(self) ==
    {IF self.kind = "PrgKeyChain"
     THEN <<Rep(16, b), Rep(StateLength(self), 5)>>
     ELSE <<Rep(16, b), Rep(StateLength(self), 5), None, None>> : b \in {3, 4}}

\* a storage made for the kind of the facade that is handed its Arc
InitLock ==
    \E s \in StorageIds : \E self \in LockFacades(s) :
       /\ storage = [x \in StorageIds |-> Some(DefaultStorage_new(self.kind))]
       /\ kc = Some(self)
       /\ held = None
       /\ pending = [t \in Threads |-> None]
       /\ last = [op |-> "init", self |-> None, args |-> <<>>, result |-> Ok(<<>>)]
       /\ ncalls = 0
       /\ made = Some([persist |-> TRUE, handle |-> TRUE])
       /\ stored = [x \in StorageIds |->
                      [made_for |-> Some(self.kind),
                       slot |-> [k \in KeyChainTypes |-> EmptyMap(k)]]]
       /\ mutex = None

\* a thread enters key_chain_update and runs it up to the store; before is
\* the state stored last when the call began, raced tells whether another
\* update was under way then
LockUpdateBegin ==
    /\ ncalls < MaxCalls + 1
    /\ \E t \in Threads : ~pending[t].some
    /\ \E args \in LockUpdateArgs(kc.v) :
          LET self == kc.v
              result == call_result(self, storage, "update", args)
          IN pending' = [pending EXCEPT ![Caller] =
                Some([op |-> "update", self |-> self, args |-> args, result |-> result,
                      pc |-> IF is_ok(result) /\ self.store_persistently /\ self.storage.some
                             THEN "lock" ELSE "return",
                      raced |-> \E u \in Threads :
                                   pending[u].some /\ pending[u].v.op = "update",
                      before |-> stored[self.storage.v].slot[self.kind][self.identity]])]
    /\ ncalls' = ncalls + 1
    /\ UNCHANGED <<storage, kc, held, last, made, stored, mutex>>

\* a thread enters fetch_*_keychain_state on its clone of the Arc; raced
\* tells whether a store had written a part of its state at that moment
LockFetchBegin ==
    /\ ncalls < MaxCalls + 1
    /\ \E t \in Threads : ~pending[t].some
    /\ LET self == kc.v IN
       pending' = [pending EXCEPT ![Caller] =
          Some([op |-> "fetch", self |-> self,
                args |-> <<self.storage.v, self.kind, self.identity>>,
                result |-> Ok(<<>>), pc |-> "lock",
                raced |-> \E u \in Threads :
                             pending[u].some /\ pending[u].v.pc = "write_rest",
                before |-> stored[self.storage.v].slot[self.kind][self.identity]])]
    /\ ncalls' = ncalls + 1
    /\ UNCHANGED <<storage, kc, held, last, made, stored, mutex>>

\* let mut map = map_mutex.lock().unwrap()
LockAcquire ==
    \E t \in Threads :
       /\ pending[t].some
       /\ pending[t].v.pc = "lock"
       /\ lock_returns(mutex)
       /\ mutex' = Some(t)
       /\ pending' = [pending EXCEPT ![t].v.pc =
                         IF pending[t].v.op = "update" THEN "write" ELSE "read"]
       /\ UNCHANGED <<storage, kc, held, last, ncalls, made, stored>>

\* map.insert(identity, state.to_vec()), the leading half of the bytes: they
\* stand before what is left of the state that was there
LockStoreFirst ==
    \E t \in Threads :
       /\ pending[t].some
       /\ pending[t].v.pc = "write"
       /\ LET self == pending[t].v.self
              new_state == pending[t].v.result.val[1]
              found == fetch_state(storage[self.storage.v].v, self.kind, self.identity)
              n == Len(new_state) \div 2
              rest == IF is_ok(found) THEN Drop(found.val, n) ELSE <<>>
          IN storage' = persist_new_state(self, storage, Take(new_state, n) \o rest)
       /\ pending' = [pending EXCEPT ![t].v.pc = "write_rest"]
       /\ UNCHANGED <<kc, held, last, ncalls, made, stored, mutex>>

\* map.insert, the trailing half of the bytes: the state is in the map
LockStoreRest ==
    \E t \in Threads :
       /\ pending[t].some
       /\ pending[t].v.pc = "write_rest"
       /\ LET self == pending[t].v.self
              new_state == pending[t].v.result.val[1]
              found == fetch_state(storage[self.storage.v].v, self.kind, self.identity)
              n == Len(new_state) \div 2
          IN /\ storage' = persist_new_state(self, storage,
                                Take(found.val, n) \o Drop(new_state, n))
             /\ stored' = [stored EXCEPT ![self.storage.v].slot[self.kind][self.identity] =
                                             Some(new_state)]
       /\ pending' = [pending EXCEPT ![t].v.pc = "unlock"]
       /\ UNCHANGED <<kc, held, last, ncalls, made, mutex>>

\* map.get(&identity) and the copy of what it finds; before becomes the
\* state stored last at this moment
LockFetchRead ==
    \E t \in Threads :
       /\ pending[t].some
       /\ pending[t].v.pc = "read"
       /\ LET args == pending[t].v.args IN
          pending' = [pending EXCEPT
             ![t].v.result = fetch_state(storage[args[1]].v, args[2], args[3]),
             ![t].v.before = stored[args[1]].slot[args[2]][args[3]],
             ![t].v.pc = "unlock"]
       /\ UNCHANGED <<storage, kc, held, last, ncalls, made, stored, mutex>>

\* the guard goes out of scope
LockRelease ==
    \E t \in Threads :
       /\ pending[t].some
       /\ pending[t].v.pc = "unlock"
       /\ mutex' = None
       /\ pending' = [pending EXCEPT ![t].v.pc = "return"]
       /\ UNCHANGED <<storage, kc, held, last, ncalls, made, stored>>

\* the method returns its result to the caller
LockReturn ==
    \E t \in Threads :
       /\ pending[t].some
       /\ pending[t].v.pc = "return"
       /\ LET call == pending[t].v IN
          last' = [op |-> call.op, self |-> Some(call.self), args |-> call.args,
                   result |-> call.result, raced |-> call.raced, before |-> call.before]
       /\ pending' = [pending EXCEPT ![t] = None]
       /\ UNCHANGED <<storage, kc, held, ncalls, made, stored, mutex>>

NextLock ==
    \/ LockUpdateBegin
    \/ LockFetchBegin
    \/ LockAcquire
    \/ LockStoreFirst
    \/ LockStoreRest
    \/ LockFetchRead
    \/ LockRelease
    \/ LockReturn

SpecLock == InitLock /\ [][NextLock]_vars

(***************************************************************************)
(* Facades with a length the primitives refuse: an output length just past *)
(* the bound of the primitive, at isize::MAX and at the top of usize, and  *)
(* security parameters that are no AES key length.  The calls on them are  *)
(* those of the state machine above.                                       *)
(***************************************************************************)
CreateMisconfigured ==
    /\ ~kc.some
    /\ \/ \E h \in HashFuncs :
             \E okl \in {254 * output_size(h) + 1, isize_MAX,
                         usize_MAX - output_size(h), usize_MAX} :
                HkdfNew(h, Some(okl), None, None)
       \/ \E x \in Xofs :
             \E okl \in {max_total_output_size(x) - state_size(x) + 1,
                         usize_MAX - state_size(x), usize_MAX} :
                XdrbgNew(x, Some(okl), None, None)
       \/ \E l \in {0, 8, 15, 17, 33, isize_MAX + 1, usize_MAX} :
             PrgNew(l, None, None)

NextMisconfigured ==
    \/ CreateMisconfigured
    \/ CallHkdfInstantiate
    \/ CallPrgInstantiate
    \/ CallXdrbgInstantiate
    \/ CallHkdfUpdate
    \/ CallPrgUpdate
    \/ CallXdrbgUpdate
    \/ ReturnUpdate

SpecMisconfigured == Init /\ [][NextMisconfigured]_vars

(***************************************************************************)
(* C1.  Persistence round trip: right after a successful update on a       *)
(* facade constructed with persist = true and some storage handle, a fetch *)
(* from that storage for the facade's identity succeeds and returns the    *)
(* new_state the update returned.                                          *)
(***************************************************************************)
C1_PersistenceRoundTrip ==
    (last.op = "update" /\ is_ok(last.result) /\ made.some /\ made.v.persist
        /\ last.self.v.storage.some)
    => fetch_state(storage[last.self.v.storage.v].v, last.self.v.kind,
                   last.self.v.identity)
       = Ok(last.result.val[1])

(***************************************************************************)
(* C2.  Construction-time guard: a constructor called with persist = true  *)
(* and no storage handle returns UninitializedStorage and yields no        *)
(* facade, so no call ever runs on a facade that persists without a        *)
(* handle; with persist = false or absent the constructor succeeds, with   *)
(* or without a handle.                                                    *)
(***************************************************************************)
C2_ConstructionGuard ==
    /\ last.op = "new" =>
          IF unwrap_or(last.args[4], FALSE) /\ ~last.args[5].some
          THEN /\ is_err(last.result)
               /\ last.result.err = "UninitializedStorage"
               /\ ~kc.some
          ELSE is_ok(last.result) /\ kc = Some(last.result.val)
    /\ kc.some => (kc.v.store_persistently => kc.v.storage.some)
    /\ \A t \in Threads :
          pending[t].some =>
             (pending[t].v.self.store_persistently => pending[t].v.self.storage.some)
    /\ (IsCall /\ last.self.v.store_persistently) => last.self.v.storage.some

C2_Witness ==
    /\ last.op = "new"
    /\ last.args[4] = Some(TRUE)
    /\ ~last.args[5].some
    /\ is_err(last.result)
    /\ ~kc.some

(***************************************************************************)
(* C3.  Length invariant: every successful instantiate returns a state of  *)
(* state_length bytes, and every successful update a new state of          *)
(* state_length bytes and an output of the configured output length        *)
(* (digest size, security parameter, state_size; the PRG's output length   *)
(* is its security parameter), whatever the lengths of the arguments.      *)
(***************************************************************************)
C3_Lengths ==
    (IsCall /\ is_ok(last.result)) =>
       IF last.op = "instantiate"
       THEN Len(last.result.val) = StateLength(last.self.v)
       ELSE /\ Len(last.result.val[1]) = StateLength(last.self.v)
            /\ Len(last.result.val[2]) = OutputLength(last.self.v)

C3_Witness ==
    /\ last.op = "update"
    /\ is_ok(last.result)
    /\ last.self.v.kind = "HkdfKeyChain"
    /\ last.self.v.output_key_length = 8
    /\ last.args[3].some /\ Len(last.args[3].v) = 64
    /\ Len(last.result.val[1]) = 64
    /\ Len(last.result.val[2]) = 8

(***************************************************************************)
(* C4.  Determinism: the result of instantiate and of update is a function *)
(* of the facade's configuration and the arguments alone: whatever calls   *)
(* came before, whatever the storage holds and whatever calls are running  *)
(* on the facade at the same time, the result is the one the same call     *)
(* gives on a system where nothing has happened yet.                       *)
(***************************************************************************)
C4_Determinism ==
    IsCall => last.result = call_result(last.self.v, NoStorage, last.op, last.args)

C4_Witness ==
    /\ last.op = "update"
    /\ is_ok(last.result)
    /\ HoldsStateFor(last.self.v)
    /\ \E t \in Threads :
          /\ pending[t].some
          /\ pending[t].v.args = last.args
          /\ pending[t].v.result = last.result

(***************************************************************************)
(* C5.  Storage slot lifecycle: the slot of an identity holds the          *)
(* new_state of the most recent successful update a persist-enabled facade *)
(* made under that identity, and the slots no update was made under hold   *)
(* nothing.                                                                *)
(***************************************************************************)
C5_SlotHoldsLatestState ==
    \A s \in StorageIds :
       storage[s].some =>
          \A k \in KeyChainTypes : \A id \in IdentitiesOf(k) :
             IF stored[s].slot[k][id].some
             THEN fetch_state(storage[s].v, k, id) = Ok(stored[s].slot[k][id].v)
             ELSE ~is_ok(fetch_state(storage[s].v, k, id))

(***************************************************************************)
(* C6.  Storage fetch errors: a fetch for the kind the storage was made    *)
(* for returns NoStoredState exactly when no store for the identity has    *)
(* happened yet, and the state stored last otherwise; a fetch for another  *)
(* kind returns UninitializedStorage, before and after any store.          *)
(***************************************************************************)
C6_FetchErrors ==
    last.op = "fetch" =>
       LET s == last.args[1]
           k == last.args[2]
           id == last.args[3]
       IN IF stored[s].made_for = Some(k)
          THEN IF stored[s].slot[k][id].some
               THEN last.result = Ok(stored[s].slot[k][id].v)
               ELSE is_err(last.result) /\ last.result.err = "NoStoredState"
          ELSE is_err(last.result) /\ last.result.err = "UninitializedStorage"

C6_Witness ==
    /\ last.op = "fetch"
    /\ is_ok(last.result)
    /\ held = Some(last.result.val)

(***************************************************************************)
(* C7.  Storage is a write-only side channel of persistent updates: an     *)
(* instantiate, and an update up to its return, leave the storage as it    *)
(* was, and when the storage holds a state for the facade's identity they  *)
(* give the result they give with no storage at all; the return of an      *)
(* update on a facade constructed with persist = false or absent leaves    *)
(* the storage as it was, also when a handle was passed to the             *)
(* constructor.                                                            *)
(***************************************************************************)
C7_StorageWriteOnly ==
    [][/\ last'.op \in {"instantiate", "update_begin"} =>
             /\ storage' = storage
             /\ HoldsStateFor(last'.self.v) =>
                   last'.result =
                      call_result(last'.self.v, NoStorage, last'.op, last'.args)
       /\ (last'.op = "update" /\ ~made.v.persist) => storage' = storage]_vars

C7_Witness ==
    /\ last.op = "update"
    /\ is_ok(last.result)
    /\ made.some /\ made.v.handle /\ ~made.v.persist
    /\ \E s \in StorageIds : storage[s] = Some(DefaultStorage_new(last.self.v.kind))

(***************************************************************************)
(* C8.  State unchanged on error: an update on a persist-enabled facade    *)
(* that fails returns one of the errors of its kind and no                 *)
(* (new_state, output), and leaves the storage, the slot of the facade's   *)
(* identity included, as it was before the call.                           *)
(***************************************************************************)
C8_ErrorKeepsStorage ==
    [][(last'.op = "update" /\ made.v.persist /\ ~is_ok(last'.result)) =>
          /\ last'.result \in UpdateErrors(last'.self.v.kind)
          /\ storage' = storage
          /\ held' = held]_vars

C8_Witness ==
    /\ last.op = "update"
    /\ is_err(last.result)
    /\ made.some /\ made.v.persist
    /\ last.self.v.storage.some
    /\ held.some
    /\ fetch_state(storage[last.self.v.storage.v].v, last.self.v.kind,
                   last.self.v.identity) = Ok(held.v)

C10_SaltBound ==
    (IsCall /\ last.self.v.kind = "HkdfKeyChain") =>
       (last.result = Err("InvalidLength", "salt")
          <=> (LastSalt.some /\ Len(LastSalt.v) > output_size(last.self.v.identity)))

C10_Witness ==
    /\ last.op = "update"
    /\ last.self.v.kind = "HkdfKeyChain"
    /\ last.self.v.state_length + last.self.v.output_key_length
          > 255 * output_size(last.self.v.identity)
    /\ LastSalt.some /\ Len(LastSalt.v) = output_size(last.self.v.identity) + 1
    /\ last.result = Err("InvalidLength", "salt")
(***************************************************************************)
(* C11.  PRG key-length enforcement, as stated: refresh and next with a    *)
(* state of any length other than 16, 24 or 32 bytes fail with             *)
(* InvalidInputKeyLength and with 16, 24 or 32 bytes succeed, for every    *)
(* extracted_parameter passed to refresh.                                  *)
(***************************************************************************)
C11_KeyLengthAnyParameter ==
    last.op \in {"prg_refresh", "prg_next"} =>
       IF Len(last.args[2]) \in {16, 24, 32}
       THEN is_ok(last.result)
       ELSE last.result = Err("InvalidInputKeyLength", "key")

(***************************************************************************)
(* C11, amended.  next with a state of any length other than 16, 24 or 32  *)
(* bytes fails with InvalidInputKeyLength and with 16, 24 or 32 bytes      *)
(* succeeds; so does refresh for every extracted_parameter as long as the  *)
(* state (a parameter of another length fails the XOR length check         *)
(* first).                                                                 *)
(***************************************************************************)
C11_KeyLength ==
    /\ last.op = "prg_next" =>
          IF Len(last.args[2]) \in {16, 24, 32}
          THEN is_ok(last.result)
          ELSE last.result = Err("InvalidInputKeyLength", "key")
    /\ (last.op = "prg_refresh" /\ Len(last.args[3]) = Len(last.args[2])) =>
          IF Len(last.args[2]) \in {16, 24, 32}
          THEN is_ok(last.result)
          ELSE last.result = Err("InvalidInputKeyLength", "key")
    /\ (last.op = "prg_refresh" /\ Len(last.args[3]) # Len(last.args[2])) =>
          last.result = Err("XORLengthMismatch", "unequal length")

C11_Witness ==
    /\ last.op = "prg_refresh"
    /\ last.args[1] = 16
    /\ Len(last.args[2]) = 24
    /\ Len(last.args[3]) = 24
    /\ is_ok(last.result)

(***************************************************************************)
(* C12.  PRG refresh length check: refresh fails with XORLengthMismatch    *)
(* exactly when the state and the extracted_parameter differ in length,    *)
(* and key_chain_update(input, state) of the PRG facade fails with         *)
(* XORLengthMismatch whenever input and state differ in length.            *)
(***************************************************************************)
C12_XorLengthCheck ==
    /\ last.op = "prg_refresh" =>
          (last.result = Err("XORLengthMismatch", "unequal length")
             <=> Len(last.args[2]) # Len(last.args[3]))
    /\ last.op = "prg_key_chain_update" =>
          (last.result = Err("XORLengthMismatch", "unequal length")
             <=> Len(last.args[1]) # Len(last.args[2]))

C12_Witness ==
    /\ last.op = "prg_key_chain_update"
    /\ Len(last.args[1]) = 24
    /\ Len(last.args[2]) = 16
    /\ last.result = Err("XORLengthMismatch", "unequal length")
(***************************************************************************)
(* C13.  XDRBG seed-size enforcement: instantiate succeeds only with a     *)
(* seed of at least 24 / 48 / 24 bytes for Shake128 / Shake256 / Ascon and *)
(* reseed only with at least 16 / 32 / 16 bytes, the reseed minimum being  *)
(* strictly smaller for every variant; a shorter seed yields               *)
(* InvalidLength, and a seed of the minimum or more with an alpha of at    *)
(* most 84 bytes succeeds and returns exactly state_size bytes (32 / 64 /  *)
(* 32).                                                                    *)
(***************************************************************************)
C13_SeedSize ==
    last.op \in {"xdrbg_instantiate", "xdrbg_reseed"} =>
       LET xof == last.args[1]
           seed == IF last.op = "xdrbg_instantiate" THEN last.args[2] ELSE last.args[3]
           alpha == unwrap_or(IF last.op = "xdrbg_instantiate"
                              THEN last.args[3] ELSE last.args[4], <<>>)
           minimum == IF last.op = "xdrbg_instantiate"
                      THEN (IF xof = "Shake256" THEN 48 ELSE 24)
                      ELSE (IF xof = "Shake256" THEN 32 ELSE 16)
       IN /\ min_seed_size_reseed(xof) < min_seed_size_instantiate(xof)
          /\ is_ok(last.result) => Len(seed) >= minimum
          /\ Len(seed) < minimum => (is_err(last.result) /\ last.result.err = "InvalidLength")
          /\ (Len(seed) >= minimum /\ Len(alpha) <= 84) =>
                (/\ is_ok(last.result)
                 /\ Len(last.result.val) = (IF xof = "Shake256" THEN 64 ELSE 32))

C13_Witness ==
    /\ last.op = "xdrbg_instantiate"
    /\ last.args[1] = "Shake256"
    /\ Len(last.args[2]) = 48
    /\ is_ok(last.result)
    /\ Len(last.result.val) = 64

C15_AlphaBound ==
    LET alphas == CASE last.op = "xdrbg_instantiate" -> <<last.args[3]>>
                    [] last.op = "xdrbg_reseed" -> <<last.args[4]>>
                    [] last.op = "xdrbg_generate" -> <<last.args[4]>>
                    [] last.op = "xdrbg_key_chain_update" -> <<last.args[4], last.args[5]>>
                    [] OTHER -> <<>>
        too_long == \E i \in 1..Len(alphas) : Len(unwrap_or(alphas[i], <<>>)) > 84
        others_okay ==
            CASE last.op = "xdrbg_instantiate" ->
                    Len(last.args[2]) >= min_seed_size_instantiate(last.args[1])
              [] last.op = "xdrbg_reseed" ->
                    Len(last.args[3]) >= min_seed_size_reseed(last.args[1])
              [] last.op = "xdrbg_generate" ->
                    last.args[3] + state_size(last.args[1])
                       <= max_total_output_size(last.args[1])
              [] OTHER -> TRUE
    IN (Len(alphas) > 0 /\ others_okay) =>
          IF too_long
          THEN is_err(last.result) /\ last.result.err = "InvalidLength"
          ELSE is_ok(last.result)
(***************************************************************************)
(* C18.  Documented defaults: a call with an absent optional parameter     *)
(* returns what the call with the default supplied explicitly returns: an  *)
(* absent HKDF salt is an all-zero salt of digest-size bytes, an absent    *)
(* HKDF info the empty info, an absent XDRBG alpha the empty alpha, an     *)
(* absent facade output_length the digest size (HKDF) or state_size        *)
(* (XDRBG), and an absent persist is false.                                *)
(***************************************************************************)
C18_Defaults ==
    /\ last.op = "new" =>
          LET key_chain_type == last.args[1]
              identity == last.args[2]
              length == Some(unwrap_or(last.args[3],
                                 CASE key_chain_type = "HkdfKeyChain" -> output_size(identity)
                                   [] key_chain_type = "XdrbgKeyChain" -> state_size(identity)
                                   [] OTHER -> 0))
              persist == Some(unwrap_or(last.args[4], FALSE))
          IN last.result =
                CASE key_chain_type = "HkdfKeyChain" ->
                        HkdfKeyChain_new(identity, length, persist, last.args[5])
                  [] key_chain_type = "PrgKeyChain" ->
                        PrgKeyChain_new(identity, persist, last.args[5])
                  [] key_chain_type = "XdrbgKeyChain" ->
                        XdrbgKeyChain_new(identity, length, persist, last.args[5])
    /\ (last.op \in {"instantiate", "update"} /\ last.self.v.kind = "HkdfKeyChain") =>
          LET n == Len(last.args)
              zero_salt == Rep(output_size(last.self.v.identity), 0)
              explicit == [last.args EXCEPT ![n - 1] = Some(unwrap_or(@, zero_salt)),
                                            ![n] = Some(unwrap_or(@, <<>>))]
          IN last.result = call_result(last.self.v, NoStorage, last.op, explicit)
    /\ (last.op = "instantiate" /\ last.self.v.kind = "XdrbgKeyChain") =>
          last.result = call_result(last.self.v, NoStorage, last.op,
                           [last.args EXCEPT ![2] = Some(unwrap_or(@, <<>>))])
    /\ (last.op = "update" /\ last.self.v.kind = "XdrbgKeyChain") =>
          last.result = call_result(last.self.v, NoStorage, last.op,
                           [last.args EXCEPT ![3] = Some(unwrap_or(@, <<>>)),
                                             ![4] = Some(unwrap_or(@, <<>>))])

C18_Witness ==
    /\ last.op = "update"
    /\ last.self.v.kind = "HkdfKeyChain"
    /\ ~last.args[3].some
    /\ ~last.args[4].some
    /\ is_ok(last.result)
    /\ made.some /\ ~made.v.persist

(***************************************************************************)
(* C19.  HKDF update composition: a successful update(input, state, salt,  *)
(* info) of the HKDF facade returns the single result of                   *)
(* expand(extract(salt, input ++ state), info, state_length +              *)
(* output_length) split in two: new_state is its leading state_length      *)
(* bytes and output its trailing output_length bytes, the input standing   *)
(* before the state in the key material.                                   *)
(***************************************************************************)
C19_HkdfUpdateComposition ==
    (last.op = "update" /\ last.self.v.kind = "HkdfKeyChain" /\ is_ok(last.result)) =>
       LET self == last.self.v
           pseudo_random_key == hkdf_extract(self.identity, last.args[3],
                                             last.args[1] \o last.args[2])
           okm == hkdf_expand(self.identity, pseudo_random_key.val, last.args[4],
                              output_size(self.identity) + self.output_key_length)
       IN /\ is_ok(pseudo_random_key)
          /\ is_ok(okm)
          /\ last.result.val[1] \o last.result.val[2] = okm.val
          /\ Len(last.result.val[1]) = output_size(self.identity)
          /\ Len(last.result.val[2]) = self.output_key_length

C19_Witness ==
    /\ last.op = "update"
    /\ last.self.v.kind = "HkdfKeyChain"
    /\ is_ok(last.result)
    /\ last.self.v.output_key_length = 8
    /\ last.args[3].some
    /\ Len(last.args[1]) < Len(last.args[2])
(***************************************************************************)
(* C20.  PRG update composition and ordering: a successful update(input,   *)
(* state) of the PRG facade is next(refresh(state, input)) with the halves *)
(* swapped: new_state is the second half of the keystream of 2 x           *)
(* security_parameter bytes that next makes and output is its first half,  *)
(* and the value the call writes to the storage, under the security        *)
(* parameter, is that second half, not the first half and not the          *)
(* refreshed state.                                                        *)
(***************************************************************************)
C20_PrgUpdateComposition ==
    (last.op = "update" /\ last.self.v.kind = "PrgKeyChain" /\ is_ok(last.result)) =>
       LET self == last.self.v
           lambda == self.identity
           refreshed == prg_refresh(lambda, last.args[2], last.args[1])
           keystream == apply_keystream(refreshed.val, PrgIv("Next"), 2 * lambda)
           first_half == SubSeq(keystream, 1, lambda)
           second_half == SubSeq(keystream, lambda + 1, 2 * lambda)
       IN /\ is_ok(refreshed)
          /\ prg_next(lambda, refreshed.val) = Ok(<<first_half, second_half>>)
          /\ last.result = Ok(<<second_half, first_half>>)
          /\ (self.store_persistently /\ self.storage.some
                /\ storage[self.storage.v].v.prg_map.some) =>
                LET found == fetch_prg_keychain_state(storage[self.storage.v].v, lambda)
                IN /\ found = Ok(second_half)
                   /\ found # Ok(first_half)
                   /\ found # Ok(refreshed.val)

C20_Witness ==
    /\ last.op = "update"
    /\ last.self.v.kind = "PrgKeyChain"
    /\ is_ok(last.result)
    /\ last.self.v.store_persistently
    /\ last.self.v.storage.some
    /\ fetch_prg_keychain_state(storage[last.self.v.storage.v].v, last.self.v.identity)
          = Ok(last.result.val[1])
    /\ last.result.val[1] # last.result.val[2]
(***************************************************************************)
(* C16.  Storage atomicity: a fetch of an identity that runs while another *)
(* thread stores a state B over a stored state A returns A in full or B in *)
(* full under every interleaving: it returns the state whose store was     *)
(* completed last when the fetch read the map, never a mixture or a part   *)
(* of a state, and NoStoredState only if no store was completed by then.   *)
(***************************************************************************)
C16_FetchIsAtomic ==
    last.op = "fetch" =>
       /\ last.result = IF last.before.some
                        THEN Ok(last.before.v)
                        ELSE Err("NoStoredState", "no state found")
       /\ is_ok(last.result) =>
             \E args \in LockUpdateArgs(last.self.v) :
                last.result.val = call_result(last.self.v, NoStorage, "update", args).val[1]

C16_Witness ==
    /\ last.op = "fetch"
    /\ last.raced
    /\ is_ok(last.result)
    /\ \E t \in Threads :
          /\ pending[t].some
          /\ pending[t].v.op = "update"
          /\ pending[t].v.before.some
          /\ pending[t].v.before.v # last.result.val
          /\ pending[t].v.result.val[1] = last.result.val

(***************************************************************************)
(* C17.  Concurrent updates to one identity: each of two update calls that *)
(* run at the same time on one storage returns its own result, the one its *)
(* arguments determine, whatever the other call does; and whenever no      *)
(* store is under way the slot holds, in full, the new_state of the call   *)
(* whose store was completed last, so that after both calls it holds the   *)
(* new_state of one of the two and no other value.                         *)
(***************************************************************************)
C17_ConcurrentUpdates ==
    /\ last.op = "update" =>
          last.result = call_result(last.self.v, NoStorage, "update", last.args)
    /\ (\A t \in Threads :
           pending[t].some => pending[t].v.pc \notin {"write", "write_rest", "unlock"}) =>
          LET self == kc.v
              slot == stored[self.storage.v].slot[self.kind][self.identity]
              found == fetch_state(storage[self.storage.v].v, self.kind, self.identity)
          IN found = IF slot.some THEN Ok(slot.v)
                     ELSE Err("NoStoredState", "no state found")
    /\ (\A t \in Threads : ~pending[t].some) =>
          LET self == kc.v
              found == fetch_state(storage[self.storage.v].v, self.kind, self.identity)
          IN is_ok(found) =>
                \E args \in LockUpdateArgs(self) :
                   found.val = call_result(self, NoStorage, "update", args).val[1]

\* two overlapping calls have returned and the slot holds the new_state of
\* the one that began first, not of the one that returned last
C17_Witness ==
    /\ last.op = "update"
    /\ last.raced
    /\ ncalls = 2
    /\ \A t \in Threads : ~pending[t].some
    /\ LET self == last.self.v
           found == fetch_state(storage[self.storage.v].v, self.kind, self.identity)
       IN /\ is_ok(found)
          /\ is_ok(last.result)
          /\ found.val # last.result.val[1]
(***************************************************************************)
(* C21.  PRG instantiate is refresh from the zero state: for every seed,   *)
(* instantiate(seed) of the PRG facade returns what refresh(all-zero state *)
(* of security_parameter bytes, seed) returns, result or error; it         *)
(* succeeds exactly when the seed has security_parameter bytes and the     *)
(* security parameter is 16, 24 or 32; and on success it is the first      *)
(* security_parameter bytes of the keystream of the cipher keyed with the  *)
(* seed itself under the refresh nonce.                                    *)
(***************************************************************************)
C21_InstantiateIsRefresh ==
    last.op = "prg_key_chain_instantiate" =>
       LET lambda == last.self.v.identity
           seed == last.args[1]
       IN /\ last.result = prg_refresh(lambda, Rep(lambda, 0), seed)
          /\ is_ok(last.result) <=> (Len(seed) = lambda /\ lambda \in {16, 24, 32})
          /\ is_ok(last.result) =>
                last.result.val
                   = SubSeq(apply_keystream(seed, NONCE_FOR_PRG_REFRESH \o <<0, 0, 0, 1>>,
                                            2 * lambda), 1, lambda)

C21_Witness ==
    /\ last.op = "prg_key_chain_instantiate"
    /\ last.self.v.identity = 24
    /\ Len(last.args[1]) = 24
    /\ is_ok(last.result)
    /\ Len(last.result.val) = 24
(***************************************************************************)
(* C22.  XDRBG update composition: update(input, state, alpha_reseed,      *)
(* alpha_generate) of the XDRBG facade is generate(reseed(state, input,    *)
(* alpha_reseed), output_key_length, alpha_generate): reseed runs first    *)
(* with alpha_reseed and op code 1 on state ++ input, generate second with *)
(* alpha_generate and op code 2 on the reseeded state; an error of reseed  *)
(* is returned and generate is not run; and the new state that is returned *)
(* and stored is the state generate gives, not the reseeded state.         *)
(***************************************************************************)
C22_XdrbgUpdateComposition ==
    (last.op = "update" /\ last.self.v.kind = "XdrbgKeyChain") =>
       LET self == last.self.v
           xof == self.identity
           reseeded == xdrbg_reseed(xof, last.args[2], last.args[1], last.args[3])
       IN /\ is_err(reseeded) => last.result = reseeded
          /\ is_ok(reseeded) =>
                /\ reseeded.val = generate_output(xof,
                                     encode(last.args[2] \o last.args[1],
                                            unwrap_or(last.args[3], <<>>), 1),
                                     state_size(xof))
                /\ last.result = xdrbg_generate(xof, reseeded.val,
                                                self.output_key_length, last.args[4])
          /\ is_ok(last.result) =>
                LET xof_output == generate_output(xof,
                                     encode(reseeded.val, unwrap_or(last.args[4], <<>>), 2),
                                     state_size(xof) + self.output_key_length)
                IN /\ last.result.val[1] \o last.result.val[2] = xof_output
                   /\ Len(last.result.val[1]) = state_size(xof)
                   /\ last.result.val[1] # reseeded.val
                   /\ (self.store_persistently /\ self.storage.some
                         /\ storage[self.storage.v].v.xdrbg_map.some) =>
                         fetch_xdrbg_keychain_state(storage[self.storage.v].v, xof)
                            = Ok(last.result.val[1])

C22_Witness ==
    /\ last.op = "update"
    /\ last.self.v.kind = "XdrbgKeyChain"
    /\ is_ok(last.result)
    /\ last.args[3].some
    /\ last.args[4].some
    /\ last.self.v.store_persistently
    /\ last.self.v.storage.some
    /\ fetch_xdrbg_keychain_state(storage[last.self.v.storage.v].v, last.self.v.identity)
          = Ok(last.result.val[1])
(***************************************************************************)
(* C23.  XDRBG encode: encode(data, alpha, op_code) is data ++ alpha ++ B, *)
(* B being the big-endian bytes of v = op_code x 85 + len(alpha) in the    *)
(* least number of bytes: one byte when v = 0 and no leading zero byte     *)
(* otherwise; op code 2 with an alpha of 3 bytes ends in the one byte 173. *)
(***************************************************************************)
C23_Encode ==
    last.op = "encode" =>
       LET data == last.args[1]
           alpha == last.args[2]
           v == last.args[3] * 85 + Len(alpha)
           head == Len(data) + Len(alpha)
           B == SubSeq(last.result, head + 1, Len(last.result))
           value == CASE Len(B) = 1 -> B[1]
                      [] Len(B) = 2 -> B[1] * 256 + B[2]
                      [] Len(B) = 3 -> (B[1] * 256 + B[2]) * 256 + B[3]
                      [] OTHER -> -1
       IN /\ Len(last.result) > head
          /\ SubSeq(last.result, 1, Len(data)) = data
          /\ SubSeq(last.result, Len(data) + 1, head) = alpha
          /\ \A i \in 1..Len(B) : B[i] \in 0..255
          /\ value = v
          /\ v = 0 => B = <<0>>
          /\ v > 0 => B[1] # 0

C23_Witness ==
    /\ last.op = "encode"
    /\ last.args[3] = 2
    /\ Len(last.args[2]) = 3
    /\ last.result = last.args[1] \o last.args[2] \o <<173>>
(***************************************************************************)
(* C24.  XDRBG domain separation: over all inputs that instantiate, reseed *)
(* and generate accept, the byte string one operation hands to the XOF is  *)
(* never the byte string another operation hands to it: the appended       *)
(* value op_code x 85 + len(alpha) lies in 0..84 for instantiate, 85..169  *)
(* for reseed and from 170 on for generate, and its bytes tell the         *)
(* operations apart.                                                       *)
(***************************************************************************)
C24_DomainSeparation ==
    last.op = "xof_inputs" =>
       LET xof == last.args[1]
           c1 == last.args[2]
           c2 == last.args[3]
           run(c) == CASE c.op = "instantiate" -> xdrbg_instantiate(xof, c.seed, c.alpha)
                       [] c.op = "reseed" -> xdrbg_reseed(xof, c.state, c.seed, c.alpha)
                       [] c.op = "generate" -> xdrbg_generate(xof, c.state, 8, c.alpha)
       IN (c1.op # c2.op /\ is_ok(run(c1)) /\ is_ok(run(c2))) =>
             last.result[1] # last.result[2]
(***************************************************************************)
(* C25.  PRG counter blocks: in every refresh and next call the i-th       *)
(* 16-byte counter block that is encrypted, for i from 0 to                *)
(* ceil(2 x security_parameter / 16) - 1, is the fixed 96-bit nonce of the *)
(* operation followed by the 32-bit big-endian encoding of 1 + i: the 12   *)
(* nonce bytes are the same in all blocks of the call and only the last 4  *)
(* bytes count upward from 1; the key stream of the call is the encryption *)
(* of these blocks.                                                        *)
(***************************************************************************)
C25_CounterBlocks ==
    (last.op \in {"prg_refresh", "prg_next"} /\ is_ok(last.result)) =>
       LET lambda == last.args[1]
           step == IF last.op = "prg_refresh" THEN "Refresh" ELSE "Next"
           nonce == IF step = "Refresh" THEN NONCE_FOR_PRG_REFRESH ELSE NONCE_FOR_PRG_NEXT
           input_key == IF step = "Refresh"
                        THEN xor_bytes(last.args[2], last.args[3]).val
                        ELSE last.args[2]
           nblocks == (2 * lambda + 15) \div 16
           key_stream == IF step = "Refresh" THEN last.result.val
                         ELSE last.result.val[1] \o last.result.val[2]
       IN /\ \A i \in 0..(nblocks - 1) :
                CounterBlock(PrgIv(step), i) = nonce \o <<0, 0, 0, 1 + i>>
          /\ \A j \in 1..Len(key_stream) :
                key_stream[j]
                   = AesBlock(input_key,
                              nonce \o <<0, 0, 0, 1 + ((j - 1) \div 16)>>)[((j - 1) % 16) + 1]
(***************************************************************************)
(* C26.  No keystream reuse between roles: refresh always uses the refresh *)
(* nonce and next always the next nonce, the two nonces differ, and for    *)
(* every security parameter in 16, 24, 32 the set of counter blocks a      *)
(* refresh call encrypts is disjoint from the set a next call encrypts, so *)
(* that under one key the two operations never encrypt the same block.     *)
(***************************************************************************)
C26_NoKeystreamReuse ==
    (last.op \in {"prg_refresh", "prg_next"} /\ is_ok(last.result)) =>
       LET lambda == last.args[1]
           refresh == last.op = "prg_refresh"
           own_iv == (IF refresh THEN NONCE_FOR_PRG_REFRESH ELSE NONCE_FOR_PRG_NEXT)
                        \o <<0, 0, 0, 1>>
           other_iv == (IF refresh THEN NONCE_FOR_PRG_NEXT ELSE NONCE_FOR_PRG_REFRESH)
                          \o <<0, 0, 0, 1>>
           input_key == IF refresh THEN xor_bytes(last.args[2], last.args[3]).val
                        ELSE last.args[2]
           key_stream == IF refresh THEN last.result.val
                         ELSE last.result.val[1] \o last.result.val[2]
           blocks(iv, l) == {CounterBlock(iv, i) : i \in 0..(((2 * l + 15) \div 16) - 1)}
       IN /\ NONCE_FOR_PRG_REFRESH # NONCE_FOR_PRG_NEXT
          /\ \A j \in 1..Len(key_stream) :
                key_stream[j]
                   = AesBlock(input_key, CounterBlock(own_iv, (j - 1) \div 16))[((j - 1) % 16) + 1]
          /\ \A l \in {16, 24, 32} :
                blocks(own_iv, lambda) \cap blocks(other_iv, l) = {}

C26_Witness ==
    /\ last.op = "prg_next"
    /\ last.args[1] = 32
    /\ Len(last.args[2]) = 32
    /\ is_ok(last.result)
    /\ Len(last.result.val[1] \o last.result.val[2]) = 64
(***************************************************************************)
(* C27.  UnexpectedOutputType is unreachable: for every input refresh is   *)
(* handed a result of the engine tagged Refresh and next one tagged Next,  *)
(* so no call of refresh, next, instantiate or update of the PRG returns   *)
(* UnexpectedOutputType; the only errors they return are XORLengthMismatch *)
(* and InvalidInputKeyLength.                                              *)
(***************************************************************************)
C27_NoUnexpectedOutputType ==
    last.op \in {"prg_refresh", "prg_next", "prg_key_chain_instantiate",
                 "prg_key_chain_update"} =>
       /\ last.result.tag \in {"Ok", "Err"}
       /\ is_err(last.result) =>
             last.result.err \in {"XORLengthMismatch", "InvalidInputKeyLength"}
       /\ (last.op = "prg_refresh" /\ Len(last.args[2]) = Len(last.args[3])) =>
             LET r == aes_in_counter_mode_as_prg(last.args[1],
                         xor_bytes(last.args[2], last.args[3]).val, "Refresh")
             IN is_ok(r) => r.val.type = "Refresh"
       /\ last.op = "prg_next" =>
             LET r == aes_in_counter_mode_as_prg(last.args[1], last.args[2], "Next")
             IN is_ok(r) => r.val.type = "Next"

C27_Witness ==
    /\ last.op = "prg_key_chain_update"
    /\ Len(last.args[1]) = 17
    /\ Len(last.args[2]) = 17
    /\ last.result = Err("InvalidInputKeyLength", "key")
(***************************************************************************)
(* C28.  Chain progress: on a facade with a valid configuration (HKDF:     *)
(* state_length + output_length at most 255 digests; PRG: security         *)
(* parameter 16, 24 or 32; XDRBG: output_length + state_size at most       *)
(* max_total_output_size) the state the caller was handed by the previous  *)
(* successful call has the length of a chain state, and every update that  *)
(* is fed that state and a valid input (HKDF: salt at most digest size;    *)
(* PRG: input of security_parameter bytes; XDRBG: input of the reseed      *)
(* minimum or more, alphas of at most 84 bytes) succeeds.                  *)
(***************************************************************************)
C28_ChainProgress ==
    kc.some =>
       LET self == kc.v
           valid_configuration ==
              CASE self.kind = "HkdfKeyChain" ->
                      output_size(self.identity) + self.output_key_length
                         <= 255 * output_size(self.identity)
                [] self.kind = "PrgKeyChain" -> self.identity \in {16, 24, 32}
                [] self.kind = "XdrbgKeyChain" ->
                      self.output_key_length + state_size(self.identity)
                         <= max_total_output_size(self.identity)
           valid_input ==
              CASE self.kind = "HkdfKeyChain" ->
                      Len(unwrap_or(last.args[3], <<>>)) <= output_size(self.identity)
                [] self.kind = "PrgKeyChain" -> Len(last.args[1]) = self.identity
                [] self.kind = "XdrbgKeyChain" ->
                      /\ Len(last.args[1]) >= min_seed_size_reseed(self.identity)
                      /\ Len(unwrap_or(last.args[3], <<>>)) <= 84
                      /\ Len(unwrap_or(last.args[4], <<>>)) <= 84
       IN (valid_configuration /\ held.some) =>
             /\ Len(held.v) = StateLength(self)
             /\ (last.op = "update_begin" /\ last.args[2] = held.v /\ valid_input) =>
                   is_ok(last.result)

C28_Witness ==
    /\ last.op = "update_begin"
    /\ kc.some /\ kc.v.kind = "PrgKeyChain"
    /\ held.some
    /\ last.args[2] = held.v
    /\ Len(last.args[1]) = kc.v.identity
    /\ is_ok(last.result)
    /\ Len(last.result.val[1]) = Len(held.v)
(***************************************************************************)
(* C29.  The new state does not depend on the output length: an HKDF or    *)
(* XDRBG update that succeeded returns, on a facade of the same algorithm  *)
(* with any other valid output_length and the same arguments, the same new *)
(* state, and of the two outputs the shorter is a prefix of the longer;    *)
(* the new state of an HKDF update is instantiate(input || state, salt,    *)
(* info).                                                                  *)
(***************************************************************************)
C29_StateIndependentOfOutputLength ==
    (/\ last.op = "update_begin"
     /\ last.self.v.kind \in {"HkdfKeyChain", "XdrbgKeyChain"}
     /\ is_ok(last.result)) =>
       LET self == last.self.v
           limit == IF self.kind = "HkdfKeyChain"
                    THEN 255 * output_size(self.identity)
                    ELSE max_total_output_size(self.identity)
           other_lengths == {n \in {1, 7, 8, 9, 40} :
                               /\ n # self.output_key_length
                               /\ StateLength(self) + n <= limit}
           is_prefix(a, b) == Len(a) <= Len(b) /\ a = Take(b, Len(a))
       IN /\ \A n \in other_lengths :
                LET other == call_result([self EXCEPT !.output_key_length = n],
                                         NoStorage, "update", last.args)
                IN /\ is_ok(other)
                   /\ other.val[1] = last.result.val[1]
                   /\ Len(other.val[2]) = n
                   /\ \/ is_prefix(other.val[2], last.result.val[2])
                      \/ is_prefix(last.result.val[2], other.val[2])
          /\ self.kind = "HkdfKeyChain" =>
                Ok(last.result.val[1])
                   = call_result(self, NoStorage, "instantiate",
                                 <<last.args[1] \o last.args[2], last.args[3], last.args[4]>>)

C29_Witness ==
    /\ last.op = "update_begin"
    /\ last.self.v.kind = "HkdfKeyChain"
    /\ is_ok(last.result)
    /\ last.self.v.output_key_length = 8
    /\ Len(last.result.val[2]) = 8
    /\ last.args[3].some
    /\ LET other == call_result([last.self.v EXCEPT !.output_key_length = 40],
                                NoStorage, "update", last.args)
       IN /\ is_ok(other)
          /\ Len(other.val[2]) = 40
          /\ other.val[1] = last.result.val[1]
          /\ Take(other.val[2], 8) = last.result.val[2]
(***************************************************************************)
(* C30.  A length misconfiguration is detected at first use: the           *)
(* constructors accept every output_length and every security parameter;   *)
(* on an HKDF facade with output_length > 254 digests and on an XDRBG      *)
(* facade with output_length + state_size > max_total_output_size an       *)
(* instantiate with valid arguments succeeds and every update returns      *)
(* InvalidLength; on a PRG facade whose security parameter is not 16, 24   *)
(* or 32 every instantiate and every update returns an error.              *)
(***************************************************************************)
C30_MisconfigurationAtFirstUse ==
    /\ (last.op = "new" /\ (unwrap_or(last.args[4], FALSE) => last.args[5].some)) =>
          is_ok(last.result)
    /\ (last.op \in {"instantiate", "update_begin", "update"}) =>
          LET self == last.self.v IN
          CASE self.kind = "HkdfKeyChain" /\ self.output_key_length > 254 * output_size(self.identity) ->
                  IF last.op = "instantiate"
                  THEN Len(unwrap_or(last.args[2], <<>>)) <= output_size(self.identity)
                          => is_ok(last.result)
                  ELSE is_err(last.result) /\ last.result.err = "InvalidLength"
            [] self.kind = "XdrbgKeyChain" /\ self.output_key_length + state_size(self.identity) > max_total_output_size(self.identity) ->
                  IF last.op = "instantiate"
                  THEN (/\ Len(last.args[1]) >= min_seed_size_instantiate(self.identity)
                        /\ Len(unwrap_or(last.args[2], <<>>)) <= MAX_LEN_ALPHA)
                          => is_ok(last.result)
                  ELSE (/\ Len(last.args[1]) >= min_seed_size_reseed(self.identity)
                        /\ Len(unwrap_or(last.args[3], <<>>)) <= MAX_LEN_ALPHA)
                          => (is_err(last.result) /\ last.result.err = "InvalidLength")
            [] self.kind = "PrgKeyChain" /\ self.identity \notin {16, 24, 32} ->
                  is_err(last.result)
            [] OTHER -> TRUE

====
